---------------------------- MODULE Spec2Model ----------------------------
(***************************************************************************)
(* Model of the insurance-policy question answering scripts:               *)
(*   text_based_analyzer.py / enhanced_text_analyzer.py  (rule based)      *)
(*   efficient_policy_analyzer.py                        (generative)      *)
(*   hybrid_policy_analyzer.py                 (vector index + generative) *)
(*   test_policy_query.py            (all questions in one generative call)*)
(*   dependencies.py    (PineconeManager, GeminiManager, DatabaseManager)  *)
(*   gemini_only_system.py           (analyze_document)                    *)
(*   app.py                          (HTTP server)                         *)
(*                                                                         *)
(* Strings.  A Python str is modelled as a sequence of symbols.  A symbol  *)
(* is either one whitespace character (" ", "\n") or a lexical unit that   *)
(* no regular expression or substring test of the program ever splits      *)
(* ("grace period", "30", "days", a single letter, ...).  len() is Len,    *)
(* concatenation is \o, slicing is SubSeq.  In the texts given to the      *)
(* rule-based answerer the blank between two lexical units is left         *)
(* implicit; the newline is explicit because "." does not match it.        *)
(***************************************************************************)
EXTENDS Integers, Sequences, FiniteSets, TLC

VARIABLES
    \* ---- chunk_text applied to one input (SpecChunk)
    c_pc, c_text, c_max, c_chunks,
    \* ---- analyze_question applied to one input (SpecRule, SpecGrace)
    r_pc, r_text, r_question, r_answer,
    r_calls,      \* the extractors the call invoked
    \* ---- one run of main() -> analyze_policy(pdf_url, questions) (Spec)
    variant,      \* which script runs: "text", "efficient", "hybrid", "query"
    pc,           \* where the run stands
    pdf,          \* the document behind pdf_url
    questions,    \* test_query['questions']
    file,         \* whether policy.pdf exists in the working directory
    doc_text,     \* the extracted text (text, efficient)
    text_chunks,  \* the extracted chunks (hybrid)
    index,        \* ids of the vectors held by the Pinecone index
    answers,      \* the answers list of analyze_policy
    log,          \* per answered question: what the answerer did
    calls,        \* how often each external operation/answerer was invoked
    api_calls,    \* EfficientPolicyAnalyzer.api_calls
    result,       \* what analyze_policy returned
    report,       \* what main() computed from the result
    \* ---- analyze_question called again and again on one analyzer (SpecTwice)
    analyzer,     \* the instance attributes of the TextBasedPolicyAnalyzer
    history,      \* the calls made so far: text, question and answer
    \* ---- the managers of dependencies.py (SpecManagers)
    pinecone_manager,  \* PineconeManager: None, or its mock_mode and index
    gemini_manager,    \* GeminiManager: None, or its mock_mode and model
    m_calls,      \* how often the index and the model were invoked
    m_last,       \* the last manager method called and what came of it
    \* ---- upload_to_pinecone applied to one chunk list (SpecUpload)
    u_pc, u_chunks,
    u_upserts,    \* the index.upsert calls made: the ids of each batch
    u_result,     \* what upload_to_pinecone returned
    u_index,      \* the ids the index holds after the call
    \* ---- the hybrid extract_pdf_text applied to one document (SpecExtract)
    e_pc, e_pdf, e_chunks,
    \* ---- one request to the server of app.py (SpecApp)
    a_pc, request, response,
    \* ---- two documents given to one pipeline each (SpecOutcome)
    o_pc, o_kind, o_docs, o_results,
    \* ---- one EfficientPolicyAnalyzer asked again and again (SpecRate)
    rl_api_calls, \* self.api_calls
    rl_last,      \* what the last analyze_with_optimized_search call did
    \* ---- two analyze_policy runs in one working directory (SpecConc)
    k_pc, k_url, k_file, k_read,
    \* ---- analyze_policy runs one after the other on one index (SpecIndex)
    x_pc, x_run, x_index, x_hits,
    \* ---- the sessions of the DatabaseManager (SpecDb)
    d_pc, d_opened, d_closed, d_last

vars == << c_pc, c_text, c_max, c_chunks, r_pc, r_text, r_question, r_answer,
           r_calls,
           variant, pc, pdf, questions, file, doc_text, text_chunks, index,
           answers, log, calls, api_calls, result, report,
           analyzer, history, pinecone_manager, gemini_manager, m_calls, m_last,
           u_pc, u_chunks, u_upserts, u_result, u_index, e_pc, e_pdf, e_chunks,
           a_pc, request, response,
           o_pc, o_kind, o_docs, o_results, rl_api_calls, rl_last,
           k_pc, k_url, k_file, k_read, x_pc, x_run, x_index, x_hits,
           d_pc, d_opened, d_closed, d_last >>

chunkVars == << c_pc, c_text, c_max, c_chunks >>
ruleVars  == << r_pc, r_text, r_question, r_answer, r_calls >>
runVars   == << variant, pc, pdf, questions, file, doc_text, text_chunks, index,
               answers, log, calls, api_calls, result, report >>
twiceVars == << analyzer, history >>
mgrVars   == << pinecone_manager, gemini_manager, m_calls, m_last >>
upVars    == << u_pc, u_chunks, u_upserts, u_result, u_index >>
exVars    == << e_pc, e_pdf, e_chunks >>
appVars   == << a_pc, request, response >>
outVars   == << o_pc, o_kind, o_docs, o_results >>
rateVars  == << rl_api_calls, rl_last >>
concVars  == << k_pc, k_url, k_file, k_read >>
idxVars   == << x_pc, x_run, x_index, x_hits >>
dbVars    == << d_pc, d_opened, d_closed, d_last >>
moreVars  == << outVars, rateVars, concVars, idxVars, dbVars >>
auxVars   == << twiceVars, mgrVars, upVars, exVars, appVars, moreVars >>
baseVars  == << chunkVars, ruleVars, runVars, twiceVars, mgrVars, upVars,
                exVars, appVars >>

-----------------------------------------------------------------------------
(* Bounds of the model *)

\* longest text given to chunk_text, in characters
MaxChunkTextLen == 5
\* largest max_length given to chunk_text
MaxMaxLength == 4
\* longest question given to analyze_question alone, in symbols
MaxQLen == 3
\* most phrases a text given to extract_grace_period is put together from
MaxPhrases == 3
\* most questions of one run
MaxQuestions == 2
\* most pages of the document of one run
MaxPages == 2
\* most method calls made on the managers of dependencies.py
MaxManagerCalls == 3
\* most chunks given to upload_to_pinecone alone
MaxChunks == 201
\* most pages of the document given to the hybrid extract_pdf_text alone
MaxLongPages == 3
\* most questions in the body of one request to the server
MaxRequestQuestions == 3
\* most calls of analyze_question made on one analyzer
MaxCalls == 3
\* most questions one EfficientPolicyAnalyzer is asked
MaxApiCalls == 17
\* most sessions the DatabaseManager is asked for
MaxSessions == 6

-----------------------------------------------------------------------------
(* Strings *)

\* all sequences over S of length 0..n
BoundedSeq(S, n) == UNION { [1..k -> S] : k \in 0..n }

Max(a, b) == IF a >= b THEN a ELSE b
Min(a, b) == IF a <= b THEN a ELSE b

\* the characters str.split() and str.strip() treat as whitespace
Whitespace == { " ", "\n" }

\* str.split(): the maximal runs of non-whitespace symbols, in order.
\* WordStarts are the positions where a run begins, WordEnd where the run
\* that begins at i ends.
WordStarts(s) ==
    { i \in 1..Len(s) :
        s[i] \notin Whitespace /\ (i = 1 \/ s[i - 1] \in Whitespace) }

WordEnd(s, i) ==
    IF \E j \in i..Len(s) : s[j] \in Whitespace
    THEN (CHOOSE j \in i..Len(s) :
             s[j] \in Whitespace /\ \A k \in i..j - 1 : s[k] \notin Whitespace) - 1
    ELSE Len(s)

Split(s) ==
    LET starts == WordStarts(s)
        nth(k) == CHOOSE i \in starts :
                     Cardinality({ j \in starts : j < i }) = k - 1
    IN  [ k \in 1..Cardinality(starts) |->
            SubSeq(s, nth(k), WordEnd(s, nth(k))) ]

\* ' '.join(words)
RECURSIVE Join(_)
Join(words) ==
    IF words = << >> THEN << >>
    ELSE IF Len(words) = 1 THEN words[1]
    ELSE words[1] \o << " " >> \o Join(Tail(words))

\* str.strip(): leading and trailing whitespace removed
RECURSIVE LStrip(_)
LStrip(s) ==
    IF s # << >> /\ s[1] \in Whitespace THEN LStrip(Tail(s)) ELSE s

RECURSIVE RStrip(_)
RStrip(s) ==
    IF s # << >> /\ s[Len(s)] \in Whitespace
    THEN RStrip(SubSeq(s, 1, Len(s) - 1)) ELSE s

Strip(s) == RStrip(LStrip(s))

\* concatenation of a sequence of sequences
RECURSIVE Flatten(_)
Flatten(ss) == IF ss = << >> THEN << >> ELSE ss[1] \o Flatten(Tail(ss))

-----------------------------------------------------------------------------
(* HybridPolicyAnalyzer.chunk_text *)

\* mutant: the word that overflows a chunk is dropped when the chunk is flushed
RECURSIVE chunk_loop_drop(_, _, _, _, _, _)
chunk_loop_drop(words, i, chunks, current_chunk, current_length, max_length) ==
    IF i > Len(words)
    THEN IF current_chunk # << >>
         THEN Append(chunks, Join(current_chunk)) ELSE chunks
    ELSE LET word == words[i] IN
         IF current_length + Len(word) + 1 > max_length /\ current_chunk # << >>
         THEN chunk_loop_drop(words, i + 1, Append(chunks, Join(current_chunk)),
                              << >>, 0, max_length)
         ELSE chunk_loop_drop(words, i + 1, chunks, Append(current_chunk, word),
                              current_length + Len(word) + 1, max_length)

\* the loop of lines 110-120, from word i on
RECURSIVE chunk_loop(_, _, _, _, _, _)
chunk_loop(words, i, chunks, current_chunk, current_length, max_length) ==
    IF i > Len(words)
    THEN IF current_chunk # << >>
         THEN Append(chunks, Join(current_chunk)) ELSE chunks
    ELSE LET word == words[i] IN
         IF current_length + Len(word) + 1 > max_length /\ current_chunk # << >>
         THEN chunk_loop(words, i + 1, Append(chunks, Join(current_chunk)),
                         << word >>, Len(word), max_length)
         ELSE chunk_loop(words, i + 1, chunks, Append(current_chunk, word),
                         current_length + Len(word) + 1, max_length)

chunk_text(text, max_length) ==
    chunk_loop(Split(text), 1, << >>, << >>, 0, max_length)

-----------------------------------------------------------------------------
(* Regular expressions of the rule-based answerer, over symbols.            *)
(* A pattern is a sequence of elements:                                     *)
(*   Lit(S)  one symbol of S        ('grace period', 'days?' = day | days)  *)
(*   Gap     .*?   lazily any symbols but the newline                       *)
(*   Num     (\d+) one digit-string symbol, captured as group 1             *)
(*   Ws      \s*   any explicit whitespace symbols (the implicit blank      *)
(*                 between two lexical units needs no symbol)               *)

Lit(S) == [k |-> "lit", ts |-> S]
Gap    == [k |-> "gap", ts |-> {}]
Num    == [k |-> "num", ts |-> {}]
Ws     == [k |-> "ws",  ts |-> {}]

\* the digit strings of the model's texts
Digits == { "30", "15", "36", "5" }

\* str.lower() on one symbol
LowerSym(c) ==
    CASE c = "Grace Period" -> "grace period"
      [] c = "Premium"      -> "premium"
      [] c = "Days"         -> "days"
      [] c = "NCD"          -> "ncd"
      [] c = "Hospital"     -> "hospital"
      [] c = "AYUSH"        -> "ayush"
      [] OTHER              -> c

\* str.lower()
Lower(s) == [ i \in 1..Len(s) |-> LowerSym(s[i]) ]

NoMatch == [ok |-> FALSE, start |-> 0, end |-> 0, cap |-> "", group |-> FALSE]

\* the backtracking matcher: elements i.. of pattern p against t from
\* position j; end is the position after the match
RECURSIVE MatchFrom(_, _, _, _)
MatchFrom(p, i, t, j) ==
    IF i > Len(p) THEN [ok |-> TRUE, start |-> 0, end |-> j, cap |-> "", group |-> FALSE]
    ELSE CASE p[i].k = "lit" ->
                IF j <= Len(t) /\ t[j] \in p[i].ts
                THEN MatchFrom(p, i + 1, t, j + 1) ELSE NoMatch
           [] p[i].k = "num" ->
                IF j <= Len(t) /\ t[j] \in Digits
                THEN LET r == MatchFrom(p, i + 1, t, j + 1) IN
                     IF r.ok THEN [r EXCEPT !.cap = t[j], !.group = TRUE]
                     ELSE NoMatch
                ELSE NoMatch
           [] p[i].k = "ws" ->
                IF j <= Len(t) /\ t[j] \in Whitespace
                THEN MatchFrom(p, i, t, j + 1)
                ELSE MatchFrom(p, i + 1, t, j)
           [] OTHER ->
                LET r == MatchFrom(p, i + 1, t, j) IN
                IF r.ok THEN r
                ELSE IF j <= Len(t) /\ t[j] # "\n"
                     THEN MatchFrom(p, i, t, j + 1) ELSE NoMatch

\* whether the pattern has a capture group 1
HasGroup(p) == \E i \in 1..Len(p) : p[i].k = "num"

\* mutant: the last match re.finditer(pattern, t) yields is taken
SearchRightmost(p, t) ==
    LET S == { s \in 1..Len(t) : MatchFrom(p, 1, t, s).ok } IN
    IF S = {} THEN NoMatch
    ELSE LET s == CHOOSE x \in S : \A y \in S : x >= y IN
         [MatchFrom(p, 1, t, s) EXCEPT !.start = s, !.group = HasGroup(p)]

\* the first match re.finditer(pattern, t) yields: the leftmost one
Search(p, t) ==
    LET S == { s \in 1..Len(t) : MatchFrom(p, 1, t, s).ok } IN
    IF S = {} THEN NoMatch
    ELSE LET s == CHOOSE x \in S : \A y \in S : x <= y IN
         [MatchFrom(p, 1, t, s) EXCEPT !.start = s, !.group = HasGroup(p)]

\* mutant: the last pattern of the list that matches is taken, not the first
LastPatternMatch(patterns, t) ==
    LET I == { i \in 1..Len(patterns) : Search(patterns[i], t).ok } IN
    IF I = {} THEN NoMatch
    ELSE Search(patterns[CHOOSE x \in I : \A y \in I : x >= y], t)

\* "for pattern in patterns: for match in re.finditer(...): return ...":
\* the first match of the first pattern of the list that matches at all
FirstPatternMatch(patterns, t) ==
    LET I == { i \in 1..Len(patterns) : Search(patterns[i], t).ok } IN
    IF I = {} THEN NoMatch
    ELSE Search(patterns[CHOOSE x \in I : \A y \in I : x <= y], t)

-----------------------------------------------------------------------------
(* TextBasedPolicyAnalyzer: the ten extractors and analyze_question.       *)
(* A call yields [exc, val]: the returned string, or the exception raised. *)

Returned(s) == [exc |-> FALSE, val |-> s]
Raised(e)   == [exc |-> TRUE,  val |-> << e >>]

InformationNotFound == << "Information not found", "in the document" >>

\* mutant: the final else returns the extractors' sentinel
NotRecognizedAsNotFound == << "Information not found", "in the document" >>

\* the answer of the final else of analyze_question
NotRecognized ==
    << "Question pattern", "not recognized", "for text-based analysis" >>

\* match.group(1) if match.group(1) else default; group(1) of a pattern
\* without a group raises IndexError
GroupOrDefault(m, default) ==
    IF ~m.group THEN Raised("IndexError: no such group")
    ELSE Returned(IF m.cap # "" THEN m.cap ELSE default)

\* text[max(0, match.start() - radius) : min(len(text), match.end() + radius)]
Context(text, m, radius) ==
    SubSeq(text, Max(0, (m.start - 1) - radius) + 1,
                 Min(Len(text), (m.end - 1) + radius))

DayS   == { "day", "days" }
MonthS == { "month", "months" }

\* the patterns list of extract_grace_period
grace_period_patterns ==
    << << Lit({"grace period"}), Gap, Num, Ws, Lit(DayS) >>,
       << Num, Ws, Lit(DayS), Gap, Lit({"grace period"}) >>,
       << Lit({"grace period"}), Gap, Lit({"thirty"}), Ws, Lit(DayS) >>,
       << Lit({"thirty"}), Ws, Lit(DayS), Gap, Lit({"grace period"}) >> >>

extract_grace_period(text) ==
    LET patterns == grace_period_patterns
        m == FirstPatternMatch(patterns, Lower(text))
    IN  IF ~m.ok THEN Returned(InformationNotFound)
        ELSE LET g == GroupOrDefault(m, "30") IN
             IF g.exc THEN g
             ELSE Returned(<< "Grace period:", g.val, "days" >>)

extract_waiting_period_ped(text) ==
    LET patterns == <<
            << Lit({"pre-existing disease"}), Gap, Num, Ws, Lit(MonthS) >>,
            << Num, Ws, Lit(MonthS), Gap, Lit({"pre-existing disease"}) >>,
            << Lit({"ped"}), Gap, Num, Ws, Lit(MonthS) >>,
            << Lit({"thirty-six"}), Ws, Lit(MonthS), Gap,
               Lit({"pre-existing", "pre-existing disease"}) >>,
            << Lit({"36"}), Ws, Lit(MonthS), Gap,
               Lit({"pre-existing", "pre-existing disease"}) >> >>
        m == FirstPatternMatch(patterns, Lower(text))
    IN  IF ~m.ok THEN Returned(InformationNotFound)
        ELSE LET g == GroupOrDefault(m, "36") IN
             IF g.exc THEN g
             ELSE Returned(<< "Waiting period for pre-existing diseases (PED):",
                              g.val, "months of continuous coverage" >>)

extract_maternity_coverage(text) ==
    LET patterns == <<
            << Lit({"maternity"}), Gap, Lit({"expense", "expenses"}), Gap,
               Lit({"covered"}) >>,
            << Lit({"maternity"}), Gap, Lit({"benefit", "benefits"}) >>,
            << Lit({"pregnancy"}), Gap, Lit({"expense", "expenses"}) >>,
            << Lit({"childbirth"}), Gap, Lit({"expense", "expenses"}) >> >>
        m == FirstPatternMatch(patterns, Lower(text))
    IN  IF ~m.ok THEN Returned(InformationNotFound)
        ELSE Returned(<< "Maternity coverage found:" >> \o Context(text, m, 1000))

extract_cataract_waiting_period(text) ==
    LET patterns == <<
            << Lit({"cataract"}), Gap, Num, Ws, Lit(MonthS) >>,
            << Num, Ws, Lit(MonthS), Gap, Lit({"cataract"}) >>,
            << Lit({"cataract"}), Gap, Lit({"waiting period"}) >>,
            << Lit({"waiting period"}), Gap, Lit({"cataract"}) >> >>
        m == FirstPatternMatch(patterns, Lower(text))
    IN  IF ~m.ok THEN Returned(InformationNotFound)
        ELSE LET g == GroupOrDefault(m, "specified") IN
             IF g.exc THEN g
             ELSE Returned(<< "Waiting period for cataract surgery:",
                              g.val, "months" >>)

extract_organ_donor_coverage(text) ==
    LET patterns == <<
            << Lit({"organ donor"}), Gap, Lit({"expense", "expenses"}) >>,
            << Lit({"organ donor"}), Gap, Lit({"covered"}) >>,
            << Lit({"donor", "organ donor"}), Gap,
               Lit({"medical expense", "medical expenses"}) >>,
            << Lit({"organ", "organ donor"}), Gap, Lit({"donor", "organ donor"}),
               Gap, Lit({"cost", "costs"}) >> >>
        m == FirstPatternMatch(patterns, Lower(text))
    IN  IF ~m.ok THEN Returned(InformationNotFound)
        ELSE Returned(<< "Organ donor coverage found:" >> \o Context(text, m, 1000))

extract_ncd_information(text) ==
    LET patterns == <<
            << Lit({"no claim discount"}), Gap, Num, Ws, Lit({"percent"}) >>,
            << Lit({"ncd"}), Gap, Num, Ws, Lit({"percent"}) >>,
            << Num, Ws, Lit({"percent"}), Gap, Lit({"no claim discount"}) >>,
            << Lit({"no claim discount"}), Gap, Num, Ws, Lit({"%"}) >>,
            << Num, Ws, Lit({"%"}), Gap, Lit({"no claim discount"}) >> >>
        m == FirstPatternMatch(patterns, Lower(text))
    IN  IF ~m.ok THEN Returned(InformationNotFound)
        ELSE LET g == GroupOrDefault(m, "specified") IN
             IF g.exc THEN g
             ELSE Returned(<< "No Claim Discount (NCD):", g.val, "%" >>)

extract_preventive_health_check(text) ==
    LET patterns == <<
            << Lit({"preventive"}), Gap, Lit({"health check"}) >>,
            << Lit({"health check"}), Gap, Lit({"benefit", "benefits"}) >>,
            << Lit({"preventive"}), Gap, Lit({"medical", "medical expenses"}) >>,
            << Lit({"annual"}), Gap, Lit({"health check"}) >> >>
        m == FirstPatternMatch(patterns, Lower(text))
    IN  IF ~m.ok THEN Returned(InformationNotFound)
        ELSE Returned(<< "Preventive health check benefit found:" >>
                      \o Context(text, m, 1000))

\* str.find(sym, from): the least 0-based index >= from holding sym, or -1
Find(s, sym, from) ==
    LET S == { i \in 0..(Len(s) - 1) : i >= from /\ s[i + 1] = sym } IN
    IF S = {} THEN -1 ELSE CHOOSE x \in S : \A y \in S : x <= y

extract_hospital_definition(text) ==
    LET patterns == <<
            << Lit({"hospital"}), Gap, Lit({"means"}), Gap, Lit({"institution"}) >>,
            << Lit({"definition"}), Gap, Lit({"hospital"}) >>,
            << Lit({"hospital"}), Gap, Lit({"definition"}) >> >>
        m == FirstPatternMatch(patterns, Lower(text))
    IN  IF ~m.ok THEN Returned(InformationNotFound)
        ELSE LET context == Context(text, m, 2000)
                 definition_start == Find(context, "Hospital", 0)
                 definition_end ==
                     IF definition_start = -1 THEN -1
                     ELSE Find(context, ".", definition_start + 100)
             IN  IF definition_start # -1 /\ definition_end # -1
                 THEN Returned(<< "Hospital Definition:" >>
                               \o SubSeq(context, definition_start + 1,
                                         definition_end + 1))
                 ELSE Returned(<< "Hospital definition found:" >> \o context)

extract_ayush_coverage(text) ==
    LET patterns == <<
            << Lit({"ayush"}), Gap, Lit({"treatment"}) >>,
            << Lit({"ayush"}), Gap, Lit({"coverage"}) >>,
            << Lit({"ayurveda"}), Gap, Lit({"yoga"}), Gap, Lit({"naturopathy"}) >>,
            << Lit({"ayush"}), Gap, Lit({"day care"}) >> >>
        m == FirstPatternMatch(patterns, Lower(text))
    IN  IF ~m.ok THEN Returned(InformationNotFound)
        ELSE Returned(<< "AYUSH coverage found:" >> \o Context(text, m, 1500))

extract_room_rent_limits(text) ==
    LET patterns == <<
            << Lit({"room rent"}), Gap, Lit({"sub-limit"}) >>,
            << Lit({"icu"}), Gap, Lit({"charges"}), Gap, Lit({"sub-limit"}) >>,
            << Lit({"room rent"}), Gap, Lit({"limit", "sub-limit"}) >>,
            << Lit({"icu"}), Gap, Lit({"limit", "sub-limit"}) >>,
            << Lit({"plan a"}), Gap, Lit({"room rent"}) >>,
            << Lit({"plan a"}), Gap, Lit({"icu"}) >> >>
        m == FirstPatternMatch(patterns, Lower(text))
    IN  IF ~m.ok THEN Returned(InformationNotFound)
        ELSE Returned(<< "Room rent/ICU sub-limits found:" >>
                      \o Context(text, m, 1000))

\* 'kw' in question_lower
In(kw, question_lower) == \E i \in 1..Len(question_lower) : question_lower[i] = kw

\* mutant: the categories are tried from the last to the first
dispatch_reversed(question_lower) ==
    IF In("room rent", question_lower) /\ In("icu", question_lower)
            /\ In("plan a", question_lower)
    THEN "extract_room_rent_limits"
    ELSE IF In("ayush", question_lower) /\ In("coverage", question_lower)
    THEN "extract_ayush_coverage"
    ELSE IF In("hospital", question_lower) /\ In("define", question_lower)
    THEN "extract_hospital_definition"
    ELSE IF In("preventive", question_lower) /\ In("health check", question_lower)
    THEN "extract_preventive_health_check"
    ELSE IF In("no claim discount", question_lower) \/ In("ncd", question_lower)
    THEN "extract_ncd_information"
    ELSE IF In("organ donor", question_lower) /\ In("expenses", question_lower)
    THEN "extract_organ_donor_coverage"
    ELSE IF In("cataract", question_lower) /\ In("surgery", question_lower)
    THEN "extract_cataract_waiting_period"
    ELSE IF In("maternity", question_lower) /\ In("expenses", question_lower)
    THEN "extract_maternity_coverage"
    ELSE IF In("waiting period", question_lower) /\ In("pre-existing", question_lower)
    THEN "extract_waiting_period_ped"
    ELSE IF In("grace period", question_lower) /\ In("premium", question_lower)
    THEN "extract_grace_period"
    ELSE "none"

\* the if/elif chain of analyze_question: the extractor its branch calls, or
\* "none" in the else branch
dispatch(question_lower) ==
    IF In("grace period", question_lower) /\ In("premium", question_lower)
    THEN "extract_grace_period"
    ELSE IF In("waiting period", question_lower) /\ In("pre-existing", question_lower)
    THEN "extract_waiting_period_ped"
    ELSE IF In("maternity", question_lower) /\ In("expenses", question_lower)
    THEN "extract_maternity_coverage"
    ELSE IF In("cataract", question_lower) /\ In("surgery", question_lower)
    THEN "extract_cataract_waiting_period"
    ELSE IF In("organ donor", question_lower) /\ In("expenses", question_lower)
    THEN "extract_organ_donor_coverage"
    ELSE IF In("no claim discount", question_lower) \/ In("ncd", question_lower)
    THEN "extract_ncd_information"
    ELSE IF In("preventive", question_lower) /\ In("health check", question_lower)
    THEN "extract_preventive_health_check"
    ELSE IF In("hospital", question_lower) /\ In("define", question_lower)
    THEN "extract_hospital_definition"
    ELSE IF In("ayush", question_lower) /\ In("coverage", question_lower)
    THEN "extract_ayush_coverage"
    ELSE IF In("room rent", question_lower) /\ In("icu", question_lower)
            /\ In("plan a", question_lower)
    THEN "extract_room_rent_limits"
    ELSE "none"

\* return self.<name>(text)
call_extractor(name, text) ==
    CASE name = "extract_grace_period" -> extract_grace_period(text)
      [] name = "extract_waiting_period_ped" -> extract_waiting_period_ped(text)
      [] name = "extract_maternity_coverage" -> extract_maternity_coverage(text)
      [] name = "extract_cataract_waiting_period" ->
             extract_cataract_waiting_period(text)
      [] name = "extract_organ_donor_coverage" ->
             extract_organ_donor_coverage(text)
      [] name = "extract_ncd_information" -> extract_ncd_information(text)
      [] name = "extract_preventive_health_check" ->
             extract_preventive_health_check(text)
      [] name = "extract_hospital_definition" ->
             extract_hospital_definition(text)
      [] name = "extract_ayush_coverage" -> extract_ayush_coverage(text)
      [] OTHER -> extract_room_rent_limits(text)

\* the extractors one call of analyze_question invokes, in order
extractors_invoked(question) ==
    LET name == dispatch(Lower(question)) IN
    IF name = "none" THEN << >> ELSE << name >>

analyze_question(text, question) ==
    LET name == dispatch(Lower(question)) IN
    IF name = "none" THEN Returned(NotRecognized)
    ELSE call_extractor(name, text)

-----------------------------------------------------------------------------
(* The pipeline: download_pdf, extract_pdf_text, upload_to_pinecone, the    *)
(* three answerers, analyze_policy and main.                                *)

None == [none |-> TRUE, list |-> << >>]
List(l) == [none |-> FALSE, list |-> l]

\* f"--- Page {page_num + 1} ---"
PageMarker(n) ==
    CASE n = 1 -> "--- Page 1 ---"
      [] n = 2 -> "--- Page 2 ---"
      [] n = 3 -> "--- Page 3 ---"
      [] OTHER -> "--- Page 4 ---"

\* TextBasedPolicyAnalyzer.extract_pdf_text (the efficient variant's is the
\* same): "" when reading raises, else every page behind its marker
extract_pdf_text(d) ==
    IF ~d.readable THEN << >>
    ELSE Flatten([ n \in 1..Len(d.pages) |->
                     << "\n", PageMarker(n), "\n" >> \o d.pages[n] \o << "\n" >> ])

\* f"page_{page_num+1}_chunk_{i+1}"
DecimalDigits == << "0", "1", "2", "3", "4", "5", "6", "7", "8", "9" >>

\* an int >= 0 formatted by an f-string: its decimal digits
RECURSIVE FormatInt(_)
FormatInt(n) ==
    IF n < 10 THEN << DecimalDigits[n + 1] >>
    ELSE FormatInt(n \div 10) \o << DecimalDigits[(n % 10) + 1] >>

\* mutant: the id names the chunk's ordinal only
ChunkIdOfOrdinal(p, k) == << "chunk_" >> \o FormatInt(k)

ChunkId(p, k) ==
    << "page_" >> \o FormatInt(p) \o << "_chunk_" >> \o FormatInt(k)

\* HybridPolicyAnalyzer.extract_pdf_text: [] when reading raises, else the
\* chunks of every page, 600 characters at most each
hybrid_extract_pdf_text(d) ==
    IF ~d.readable THEN << >>
    ELSE Flatten([ n \in 1..Len(d.pages) |->
                     LET chunks == chunk_text(d.pages[n], 600) IN
                     [ k \in 1..Len(chunks) |->
                         [id |-> ChunkId(n, k), text |-> chunks[k],
                          page |-> n, chunk |-> k] ] ])

\* mutant: only a missing text counts as no content
NoContentNever(v, t, chunks) == FALSE

\* "if not text.strip()" (text, efficient), "if not text_chunks" (hybrid)
NoContent(v, t, chunks) ==
    IF v = "hybrid" THEN chunks = << >> ELSE Strip(t) = << >>

batch_size == 100

\* the number of batches range(0, n, batch_size) yields
NumBatches(n) == (n + batch_size - 1) \div batch_size

\* the ids of batch k (1-based) of the vectors
BatchIds(chunks, k) ==
    { chunks[j].id : j \in ((k - 1) * batch_size + 1)..Min(k * batch_size, Len(chunks)) }

\* the vector record made of one chunk (the embedding is left out)
Vector(chunk) ==
    [id |-> chunk.id,
     metadata |-> [text |-> chunk.text, page |-> chunk.page,
                   chunk |-> chunk.chunk]]

\* mutant: a batch runs one vector into the next batch
BatchOverlapping(vectors, k) ==
    SubSeq(vectors, (k - 1) * batch_size + 1,
                    Min(k * batch_size + 1, Len(vectors)))

\* batch = vectors[i:i + batch_size], for the k-th i of
\* range(0, len(vectors), batch_size)
Batch(vectors, k) ==
    SubSeq(vectors, (k - 1) * batch_size + 1, Min(k * batch_size, Len(vectors)))

\* the arguments of the index.upsert calls of upload_to_pinecone, in order,
\* when the call for batch fail_at raises (0: none does)
upsert_calls(chunks, fail_at) ==
    LET vectors == [ j \in 1..Len(chunks) |-> Vector(chunks[j]) ]
        nb      == NumBatches(Len(vectors))
    IN  [ k \in 1..(IF fail_at = 0 THEN nb ELSE fail_at) |-> Batch(vectors, k) ]

\* mutant: a failed upsert is printed and the upload reports success
upload_reports_success(chunks, idx, fail_at) ==
    LET nb   == NumBatches(Len(chunks))
        done == IF fail_at = 0 THEN nb ELSE fail_at - 1
    IN  [ok      |-> TRUE,
         index   |-> idx \cup UNION { BatchIds(chunks, k) : k \in 1..done },
         upserts |-> IF fail_at = 0 THEN nb ELSE fail_at,
         batches |-> upsert_calls(chunks, fail_at),
         failed  |-> fail_at # 0]

\* mutant: a failed upload takes its vectors out of the index again
upload_rolls_back(chunks, idx, fail_at) ==
    LET nb == NumBatches(Len(chunks)) IN
    [ok      |-> fail_at = 0,
     index   |-> IF fail_at = 0
                 THEN idx \cup UNION { BatchIds(chunks, k) : k \in 1..nb }
                 ELSE idx,
     upserts |-> IF fail_at = 0 THEN nb ELSE fail_at,
     batches |-> upsert_calls(chunks, fail_at),
     failed  |-> fail_at # 0]

\* HybridPolicyAnalyzer.upload_to_pinecone; fail_at is the batch whose upsert
\* raises (0: none does).  Yields the return value, the index afterwards and
\* the upsert calls made: their number and their arguments.
upload_to_pinecone(chunks, idx, fail_at) ==
    LET nb   == NumBatches(Len(chunks))
        done == IF fail_at = 0 THEN nb ELSE fail_at - 1
    IN  [ok      |-> fail_at = 0,
         index   |-> idx \cup UNION { BatchIds(chunks, k) : k \in 1..done },
         upserts |-> IF fail_at = 0 THEN nb ELSE fail_at,
         batches |-> upsert_calls(chunks, fail_at),
         failed  |-> fail_at # 0]

\* what the language model may do on one generate_content call
Responses ==
    { << "Information not found", "in the document" >>,
      << "The grace period is", "30", "days" >> }
Exceptions ==
    { << "429", "quota exceeded" >>, << "500", "internal error" >> }
Outcomes ==
    { [ok |-> TRUE, val |-> r] : r \in Responses }
    \cup { [ok |-> FALSE, val |-> e] : e \in Exceptions }

\* no call was made
NoOutcome == [ok |-> TRUE, val |-> << >>]

max_calls_per_minute == 8

\* mutant: the counter starts again from 0 after the sleep
rate_limit_check_reset(n) ==
    [api_calls |-> IF (n + 1) % max_calls_per_minute = 0 THEN 0 ELSE n + 1,
     sleeps    |-> IF (n + 1) % max_calls_per_minute = 0 THEN 1 ELSE 0]

\* EfficientPolicyAnalyzer.rate_limit_check: the new api_calls and whether
\* the 60 s sleep happens
rate_limit_check(n) ==
    [api_calls |-> n + 1,
     sleeps    |-> IF (n + 1) % max_calls_per_minute = 0 THEN 1 ELSE 0]

\* mutant: every failing call is retried
AnyError(e) == TRUE

\* "429" in str(e)
QuotaError(e) == \E i \in 1..Len(e) : e[i] = "429"

\* EfficientPolicyAnalyzer.analyze_with_optimized_search, lines 150-164, given
\* the outcome of the first generate_content call and of the retry (the text
\* and the question only shape the prompt).  cooldown counts the 60 s sleeps
\* of the except branch, sleeps those and the one of rate_limit_check.
analyze_with_optimized_search(n, first, second) ==
    LET rl == rate_limit_check(n) IN
    IF first.ok
    THEN [answer |-> first.val, gen |-> 1, sleeps |-> rl.sleeps,
          cooldown |-> 0, api_calls |-> rl.api_calls]
    ELSE IF QuotaError(first.val)
    THEN [answer |-> IF second.ok THEN second.val
                     ELSE << "Error after retry:" >> \o second.val,
          gen |-> 2, sleeps |-> rl.sleeps + 1, cooldown |-> 1,
          api_calls |-> rl.api_calls]
    ELSE [answer |-> << "Error in analysis:" >> \o first.val,
          gen |-> 1, sleeps |-> rl.sleeps, cooldown |-> 0,
          api_calls |-> rl.api_calls]

NoRelevantInformation == << "No relevant information found in the document." >>

\* HybridPolicyAnalyzer.answer_with_gemini, given the outcome of the
\* generate_content call it makes when there are chunks
answer_with_gemini(question, relevant_chunks, outcome) ==
    IF relevant_chunks = {} THEN [answer |-> NoRelevantInformation, gen |-> 0]
    ELSE IF outcome.ok THEN [answer |-> outcome.val, gen |-> 1]
    ELSE [answer |-> << "Error generating answer:" >> \o outcome.val, gen |-> 1]

\* mutant: a question without matches gets the other variants' sentinel
hybrid_answer_sentinel(question, relevant_chunks, outcome) ==
    IF relevant_chunks # {}
    THEN answer_with_gemini(question, relevant_chunks, outcome)
    ELSE [answer |-> InformationNotFound, gen |-> 0]

\* HybridPolicyAnalyzer.analyze_policy, lines 257-273: the answer to one
\* question from the chunks the search returned
hybrid_answer(question, relevant_chunks, outcome) ==
    IF relevant_chunks # {}
    THEN answer_with_gemini(question, relevant_chunks, outcome)
    ELSE [answer |-> NoRelevantInformation, gen |-> 0]

\* mutant: the newest answer is put first
PrependAnswer(list, entry) == << entry >> \o list

\* answers.append({...})
AppendAnswer(list, entry) == Append(list, entry)

\* 'sym' in answer
Contains(answer, sym) == \E i \in 1..Len(answer) : answer[i] = sym

\* mutant: the efficient variant's test in the text-based main
FoundEfficient(v, answer) == ~Contains(answer, "Information not found")

\* mutant: an answer that reports an error is not counted as found
FoundNoErrors(v, answer) ==
    /\ ~Contains(answer, "Information not found")
    /\ (v = "efficient" => /\ ~Contains(answer, "Error in analysis:")
                            /\ ~Contains(answer, "Error after retry:"))
    /\ (v # "efficient" => ~Contains(answer, "not recognized"))

\* the test main() counts an answer as found with
Found(v, answer) ==
    IF v = "efficient" THEN ~Contains(answer, "Information not found")
    ELSE /\ ~Contains(answer, "Information not found")
         /\ ~Contains(answer, "not recognized")

\* the counting loop of main()
RECURSIVE CountFound(_, _, _, _)
CountFound(v, results, k, found_count) ==
    IF k > Len(results) THEN found_count
    ELSE CountFound(v, results, k + 1,
                    IF Found(v, results[k].answer) THEN found_count + 1
                    ELSE found_count)

\* mutant: "if results is not None"
NotNone(r) == ~r.none

\* "if results:" in main()
Truthy(r) == ~r.none /\ r.list # << >>

NoReport == [reported |-> FALSE, found_count |-> 0, total |-> 0,
             accuracy |-> [num |-> 0, den |-> 1], error |-> ""]

\* main() after analyze_policy returned r: the accuracy summary.  accuracy is
\* the quotient num/den of (found_count / len(questions)) * 100.
main_report(v, r, qs) ==
    IF ~Truthy(r) \/ v = "hybrid" THEN NoReport
    ELSE LET found_count == CountFound(v, r.list, 1, 0) IN
         IF Len(qs) = 0
         THEN [NoReport EXCEPT !.found_count = found_count,
                               !.error = "ZeroDivisionError"]
         ELSE [reported |-> TRUE, found_count |-> found_count, total |-> Len(qs),
               accuracy |-> [num |-> found_count * 100, den |-> Len(qs)],
               error |-> ""]

-----------------------------------------------------------------------------
(* Specification SpecChunk: chunk_text applied to every bounded input *)

ChunkAlphabet == { "a", "b", " ", "\n" }

IdleRule ==
    /\ r_pc = "idle" /\ r_text = << >> /\ r_question = << >>
    /\ r_answer = [exc |-> FALSE, val |-> << >>]
    /\ r_calls = << >>

IdleRun ==
    /\ variant = "none" /\ pc = "idle"
    /\ pdf = [fetch_ok |-> FALSE, readable |-> FALSE, pages |-> << >>]
    /\ questions = << >> /\ file = FALSE /\ doc_text = << >>
    /\ text_chunks = << >>
    /\ index = {} /\ answers = << >> /\ log = << >>
    /\ calls = [analyze_question |-> 0, generate_content |-> 0, query |-> 0,
                upsert |-> 0, upsert_failed |-> 0, sleep60 |-> 0]
    /\ api_calls = 0 /\ result = None /\ report = NoReport

IdleChunk ==
    /\ c_pc = "idle" /\ c_text = << >> /\ c_max = 0 /\ c_chunks = << >>

IdleTwice ==
    /\ analyzer = << >> /\ history = << >>

NoCall == [method |-> "", outcome |-> [ok |-> TRUE, val |-> << >>],
           raised |-> FALSE, value |-> << >>]

IdleManagers ==
    /\ pinecone_manager = [constructed |-> FALSE, mock_mode |-> FALSE,
                           index |-> FALSE]
    /\ gemini_manager = [constructed |-> FALSE, mock_mode |-> FALSE,
                         model |-> FALSE]
    /\ m_calls = [methods |-> 0, query |-> 0, describe_index_stats |-> 0,
                  generate_content |-> 0]
    /\ m_last = NoCall

IdleUpload ==
    /\ u_pc = "idle" /\ u_chunks = << >> /\ u_upserts = << >>
    /\ u_result = "none" /\ u_index = {}

IdleExtract ==
    /\ e_pc = "idle" /\ e_chunks = << >>
    /\ e_pdf = [fetch_ok |-> FALSE, readable |-> FALSE, pages |-> << >>]

IdleApp ==
    /\ a_pc = "idle" /\ request = << >> /\ response = << >>

IdleOutcome ==
    /\ o_pc = "idle" /\ o_kind = "none" /\ o_docs = << >> /\ o_results = << >>

IdleRate ==
    /\ rl_api_calls = 0 /\ rl_last = << >>

IdleConc ==
    /\ k_pc = << >> /\ k_url = << >> /\ k_file = 0 /\ k_read = << >>

IdleIndex ==
    /\ x_pc = "idle" /\ x_run = << >> /\ x_index = {} /\ x_hits = {}

IdleDb ==
    /\ d_pc = "idle" /\ d_opened = 0 /\ d_closed = 0 /\ d_last = << >>

IdleMore ==
    /\ IdleOutcome /\ IdleRate /\ IdleConc /\ IdleIndex /\ IdleDb

IdleBase ==
    /\ IdleChunk /\ IdleRule /\ IdleRun
    /\ IdleTwice /\ IdleManagers /\ IdleUpload /\ IdleExtract /\ IdleApp

\* the parts of the model a specification does not use stay as they are
IdleAux ==
    /\ IdleTwice /\ IdleManagers /\ IdleUpload /\ IdleExtract /\ IdleApp
    /\ IdleMore

InitChunk ==
    /\ c_pc = "call"
    /\ c_text \in BoundedSeq(ChunkAlphabet, MaxChunkTextLen)
    /\ c_max \in 1..MaxMaxLength
    /\ c_chunks = << >>
    /\ IdleRule
    /\ IdleRun
    /\ IdleAux

ChunkText ==
    /\ c_pc = "call"
    /\ c_chunks' = chunk_text(c_text, c_max)
    /\ c_pc' = "done"
    /\ UNCHANGED << c_text, c_max >>
    /\ UNCHANGED << ruleVars, runVars, auxVars >>

NextChunk == ChunkText

SpecChunk == InitChunk /\ [][NextChunk]_vars

-----------------------------------------------------------------------------
(* Specifications SpecRule and SpecGrace: analyze_question applied to one  *)
(* (text, question) pair.  SpecRule draws every question up to MaxQLen     *)
(* symbols and a few texts; SpecGrace draws a few questions and every text *)
(* put together from up to MaxPhrases phrases.                             *)

\* the phrases analyze_question looks for in a question, an upper-case
\* spelling and a word it does not look for
QAlphabet ==
    { "grace period", "premium", "waiting period", "pre-existing", "maternity",
      "expenses", "cataract", "surgery", "organ donor", "no claim discount",
      "ncd", "preventive", "health check", "hospital", "define", "ayush",
      "coverage", "room rent", "icu", "plan a", "NCD", "color" }

RuleTexts ==
    { << >>,
      << "grace period", "of", "30", "days", "\n", "no claim discount", "5", "%" >>,
      << "Hospital", "means", "institution", "\n", "maternity", "expenses",
         "covered", "Information not found" >> }

GracePhrases ==
    { << c >> : c \in { "grace period", "Grace Period", "of", "30", "15", "days",
                        "thirty", "\n" } }
    \cup { << "grace period", "of", "30", "days" >>,
           << "grace period", "of", "15", "days" >>,
           << "Grace Period", "15", "Days" >> }

GraceTexts ==
    { Flatten(ps) : ps \in BoundedSeq(GracePhrases, MaxPhrases) }

GraceQuestions ==
    { << "grace period", "premium" >>,
      << "Premium", "color", "Grace Period" >>,
      << "grace period", "color" >> }

InitRule ==
    /\ r_pc = "call"
    /\ r_text \in RuleTexts
    /\ r_question \in BoundedSeq(QAlphabet, MaxQLen)
    /\ r_answer = [exc |-> FALSE, val |-> << >>]
    /\ r_calls = << >>
    /\ IdleChunk
    /\ IdleRun
    /\ IdleAux

InitGrace ==
    /\ r_pc = "call"
    /\ r_text \in GraceTexts
    /\ r_question \in GraceQuestions
    /\ r_answer = [exc |-> FALSE, val |-> << >>]
    /\ r_calls = << >>
    /\ IdleChunk
    /\ IdleRun
    /\ IdleAux

AnalyzeQuestion ==
    /\ r_pc = "call"
    /\ r_answer' = analyze_question(r_text, r_question)
    /\ r_calls' = extractors_invoked(r_question)
    /\ r_pc' = "done"
    /\ UNCHANGED << r_text, r_question >>
    /\ UNCHANGED << chunkVars, runVars, auxVars >>

NextRule == AnalyzeQuestion

SpecRule == InitRule /\ [][NextRule]_vars

SpecGrace == InitGrace /\ [][NextRule]_vars

-----------------------------------------------------------------------------
(* Claims about the rule-based answerer *)

\* the lowercased question holds the phrase kw
Asks(kw) == \E i \in 1..Len(r_question) : LowerSym(r_question[i]) = kw

\* one of the ten category conditions of analyze_question holds
SomeCategory ==
    \/ Asks("grace period") /\ Asks("premium")
    \/ Asks("waiting period") /\ Asks("pre-existing")
    \/ Asks("maternity") /\ Asks("expenses")
    \/ Asks("cataract") /\ Asks("surgery")
    \/ Asks("organ donor") /\ Asks("expenses")
    \/ Asks("no claim discount")
    \/ Asks("ncd")
    \/ Asks("preventive") /\ Asks("health check")
    \/ Asks("hospital") /\ Asks("define")
    \/ Asks("ayush") /\ Asks("coverage")
    \/ Asks("room rent") /\ Asks("icu") /\ Asks("plan a")

\* C2: a question that satisfies none of the ten category conditions is
\* answered with the "not recognized" sentinel, whatever the text.
C2_UnmatchedQuestionNotRecognized ==
    (r_pc = "done" /\ ~SomeCategory) =>
        r_answer = [exc |-> FALSE,
                    val |-> << "Question pattern", "not recognized",
                               "for text-based analysis" >>]

\* C2 witness: a question holding one half of a category condition, on a text
\* that does hold the information, was answered "not recognized"
C2_Witness ==
    /\ r_pc = "done"
    /\ Asks("hospital") /\ Asks("color") /\ ~SomeCategory
    /\ r_text # << >>
    /\ r_answer.val[2] = "not recognized"

\* the text holds 'grace period of n days' from position p on
GracePhraseAt(p, n) ==
    /\ p + 3 <= Len(r_text)
    /\ SubSeq(r_text, p, p + 3) = << "grace period", "of", n, "days" >>

GraceQuestion == Asks("grace period") /\ Asks("premium")

\* C3 as claimed: for a grace-period question and a text containing
\* 'grace period of N days' the answer is 'Grace period: N days'.
C3_GracePeriodOfNDays ==
    (r_pc = "done" /\ GraceQuestion) =>
        \A n \in Digits : \A p \in 1..Len(r_text) :
            GracePhraseAt(p, n) =>
                r_answer = [exc |-> FALSE, val |-> << "Grace period:", n, "days" >>]

\* C3 amended: the same, when no 'grace period' (in any case) stands in the
\* text before the 'grace period of N days'.
C3_FirstGracePeriodOfNDays ==
    (r_pc = "done" /\ GraceQuestion) =>
        \A n \in Digits : \A p \in 1..Len(r_text) :
            ( /\ GracePhraseAt(p, n)
              /\ \A i \in 1..(p - 1) : LowerSym(r_text[i]) # "grace period" ) =>
                r_answer = [exc |-> FALSE, val |-> << "Grace period:", n, "days" >>]

\* C3 witness: 'grace period of 30 days' after other days, and before another
\* grace period, was answered 'Grace period: 30 days'
C3_Witness ==
    /\ r_pc = "done" /\ GraceQuestion
    /\ \E p \in 2..Len(r_text) :
          /\ GracePhraseAt(p, "30")
          /\ \A i \in 1..(p - 1) : LowerSym(r_text[i]) # "grace period"
          /\ \E i \in 1..(p - 1) : r_text[i] = "15"
          /\ \E q \in (p + 4)..Len(r_text) : GracePhraseAt(q, "15")
    /\ r_answer.val = << "Grace period:", "30", "days" >>

-----------------------------------------------------------------------------
(* Specification Spec: one run of main(), which calls analyze_policy on    *)
(* one document and one question list, in one of the three variants.       *)

RunQuestions ==
    { << "grace period", "premium" >>, << "color" >>, << "NCD" >> }

\* what page.extract_text() may give for a page
TextPages ==
    { << >>,
      << "grace period", "of", "30", "days" >>,
      << "grace period", "thirty", "days" >> }
HybridPages ==
    { << >>, << "a", " ", "b" >>, << "\n" >> }

\* the documents: not fetched; fetched but unreadable; fetched and readable
Documents(v) ==
    { [fetch_ok |-> FALSE, readable |-> FALSE, pages |-> << >>],
      [fetch_ok |-> TRUE,  readable |-> FALSE, pages |-> << >>] }
    \cup { [fetch_ok |-> TRUE, readable |-> TRUE, pages |-> ps] :
             ps \in BoundedSeq(IF v = "hybrid" THEN HybridPages ELSE TextPages,
                               MaxPages) }

top_k == 3

Init ==
    /\ variant \in { "text", "efficient", "hybrid" }
    /\ pc = "download"
    /\ pdf \in Documents(variant)
    /\ questions \in BoundedSeq(RunQuestions, MaxQuestions)
    /\ file = FALSE
    /\ doc_text = << >>
    /\ text_chunks = << >>
    /\ index = {}
    /\ answers = << >>
    /\ log = << >>
    /\ calls = [analyze_question |-> 0, generate_content |-> 0, query |-> 0,
                upsert |-> 0, upsert_failed |-> 0, sleep60 |-> 0]
    /\ api_calls = 0
    /\ result = None
    /\ report = NoReport
    /\ IdleChunk
    /\ IdleRule
    /\ IdleAux

\* the finally clause of analyze_policy: os.remove(pdf_filename)
Return(r) ==
    /\ result' = r
    /\ file' = FALSE
    /\ pc' = "returned"

\* download_pdf and "if not pdf_filename: return None"
DownloadPdf ==
    /\ pc = "download"
    /\ IF pdf.fetch_ok
       THEN /\ file' = TRUE
            /\ pc' = "extract"
            /\ UNCHANGED result
       ELSE /\ result' = None
            /\ pc' = "returned"
            /\ UNCHANGED file
    /\ UNCHANGED << variant, pdf, questions, doc_text, text_chunks, index,
                    answers, log, calls, api_calls, report >>
    /\ UNCHANGED << chunkVars, ruleVars, auxVars >>

\* text = self.extract_pdf_text(pdf_filename)
ExtractPdfText ==
    /\ pc = "extract"
    /\ IF variant = "hybrid"
       THEN /\ text_chunks' = hybrid_extract_pdf_text(pdf)
            /\ UNCHANGED doc_text
       ELSE /\ doc_text' = extract_pdf_text(pdf)
            /\ UNCHANGED text_chunks
    /\ pc' = "check"
    /\ UNCHANGED << variant, pdf, questions, file, index, answers, log, calls,
                    api_calls, result, report >>
    /\ UNCHANGED << chunkVars, ruleVars, auxVars >>

\* "if not text.strip(): return None" / "if not text_chunks: return None"
CheckContent ==
    /\ pc = "check"
    /\ IF NoContent(variant, doc_text, text_chunks)
       THEN Return(None)
       ELSE /\ pc' = IF variant = "hybrid" THEN "upload" ELSE "answer"
            /\ UNCHANGED << result, file >>
    /\ UNCHANGED << variant, pdf, questions, doc_text, text_chunks, index,
                    answers, log, calls, api_calls, report >>
    /\ UNCHANGED << chunkVars, ruleVars, auxVars >>

\* "if not self.upload_to_pinecone(text_chunks): return None"
UploadToPinecone ==
    /\ pc = "upload"
    /\ \E fail_at \in 0..NumBatches(Len(text_chunks)) :
          LET up == upload_to_pinecone(text_chunks, index, fail_at) IN
          /\ index' = up.index
          /\ calls' = [calls EXCEPT !.upsert = @ + up.upserts,
                                    !.upsert_failed =
                                        @ + IF up.failed THEN 1 ELSE 0]
          /\ IF up.ok
             THEN /\ pc' = "answer"
                  /\ UNCHANGED << result, file >>
             ELSE Return(None)
    /\ UNCHANGED << variant, pdf, questions, doc_text, text_chunks, answers,
                    log, api_calls, report >>
    /\ UNCHANGED << chunkVars, ruleVars, auxVars >>

\* the question the loop of analyze_policy is at
NextQuestion == questions[Len(answers) + 1]

\* one round of the loop of TextBasedPolicyAnalyzer.analyze_policy; an
\* exception of analyze_question leaves analyze_policy through its finally
AnswerTextBased ==
    /\ pc = "answer" /\ variant = "text"
    /\ Len(answers) < Len(questions)
    /\ LET a == analyze_question(doc_text, NextQuestion) IN
       /\ calls' = [calls EXCEPT !.analyze_question = @ + 1]
       /\ IF a.exc
          THEN /\ pc' = "raised"
               /\ file' = FALSE
               /\ UNCHANGED << answers, log >>
          ELSE /\ answers' = AppendAnswer(answers,
                                 [question |-> NextQuestion, answer |-> a.val])
               /\ log' = Append(log, [matches |-> 0, search_failed |-> FALSE,
                                      gen |-> 0])
               /\ UNCHANGED << pc, file >>
    /\ UNCHANGED << variant, pdf, questions, doc_text, text_chunks, index,
                    api_calls, result, report >>
    /\ UNCHANGED << chunkVars, ruleVars, auxVars >>

\* one round of the loop of EfficientPolicyAnalyzer.analyze_policy
AnswerEfficient ==
    /\ pc = "answer" /\ variant = "efficient"
    /\ Len(answers) < Len(questions)
    /\ \E first \in Outcomes, second \in Outcomes :
          LET a == analyze_with_optimized_search(api_calls, first, second) IN
          /\ api_calls' = a.api_calls
          /\ calls' = [calls EXCEPT !.generate_content = @ + a.gen,
                                    !.sleep60 = @ + a.sleeps]
          /\ answers' = AppendAnswer(answers,
                            [question |-> NextQuestion, answer |-> a.answer])
          /\ log' = Append(log, [matches |-> 0, search_failed |-> FALSE,
                                 gen |-> a.gen, cooldown |-> a.cooldown,
                                 first |-> first,
                                 retry |-> IF a.gen = 2 THEN second
                                           ELSE NoOutcome])
    /\ UNCHANGED << variant, pc, pdf, questions, file, doc_text, text_chunks,
                    index, result, report >>
    /\ UNCHANGED << chunkVars, ruleVars, auxVars >>

\* what search_relevant_chunks may return: [] when the query raises, else at
\* most top_k of the vectors of the index
SearchResults ==
    { [failed |-> TRUE, chunks |-> {}] }
    \cup { [failed |-> FALSE, chunks |-> S] :
             S \in { T \in SUBSET index : Cardinality(T) <= top_k } }

\* one round of the loop of HybridPolicyAnalyzer.analyze_policy
AnswerHybrid ==
    /\ pc = "answer" /\ variant = "hybrid"
    /\ Len(answers) < Len(questions)
    /\ \E found \in SearchResults, outcome \in Outcomes :
          LET a == hybrid_answer(NextQuestion, found.chunks, outcome) IN
          /\ calls' = [calls EXCEPT !.query = @ + 1,
                                    !.generate_content = @ + a.gen]
          /\ answers' = AppendAnswer(answers,
                            [question |-> NextQuestion, answer |-> a.answer,
                             relevant_chunks |-> Cardinality(found.chunks)])
          /\ log' = Append(log, [matches |-> Cardinality(found.chunks),
                                 search_failed |-> found.failed, gen |-> a.gen])
    /\ UNCHANGED << variant, pc, pdf, questions, file, doc_text, text_chunks,
                    index, api_calls, result, report >>
    /\ UNCHANGED << chunkVars, ruleVars, auxVars >>

\* "return answers" after the loop
ReturnAnswers ==
    /\ pc = "answer"
    /\ Len(answers) = Len(questions)
    /\ Return(List(answers))
    /\ UNCHANGED << variant, pdf, questions, doc_text, text_chunks, index,
                    answers, log, calls, api_calls, report >>
    /\ UNCHANGED << chunkVars, ruleVars, auxVars >>

\* main() once analyze_policy is over: the summary, or "System error" when
\* analyze_policy or the summary raised
Main ==
    /\ pc \in { "returned", "raised" }
    /\ report' = IF pc = "raised"
                 THEN [NoReport EXCEPT !.error = "IndexError"]
                 ELSE main_report(variant, result, questions)
    /\ pc' = "done"
    /\ UNCHANGED << variant, pdf, questions, file, doc_text, text_chunks, index,
                    answers, log, calls, api_calls, result >>
    /\ UNCHANGED << chunkVars, ruleVars, auxVars >>

Next ==
    \/ DownloadPdf
    \/ ExtractPdfText
    \/ CheckContent
    \/ UploadToPinecone
    \/ AnswerTextBased
    \/ AnswerEfficient
    \/ AnswerHybrid
    \/ ReturnAnswers
    \/ Main

Spec == Init /\ [][Next]_vars

-----------------------------------------------------------------------------
(* Specification SpecQuery: one run of main() of test_policy_query.py, the *)
(* script that downloads the policy, extracts its text and asks the model  *)
(* all questions in one call.  It runs on the variables of a run, with     *)
(* variant = "query".                                                      *)

\* extract_pdf_text of test_policy_query.py: "" when reading raises, else
\* every page behind its marker
query_extract_pdf_text(d) ==
    IF ~d.readable THEN << >>
    ELSE Flatten([ n \in 1..Len(d.pages) |->
                     << "\n", PageMarker(n), "\n" >> \o d.pages[n] ])

\* the character U+274C the scripts start their failure messages with
CrossMark == "U+274C"

\* answer_questions_with_gemini, given the outcome of its generate_content call
answer_questions_with_gemini(outcome) ==
    IF outcome.ok THEN outcome.val
    ELSE << CrossMark, "Analysis failed:" >> \o outcome.val

InitQuery ==
    /\ variant = "query"
    /\ pc = "setup"
    /\ pdf \in Documents("query")
    /\ questions \in BoundedSeq(RunQuestions, MaxQuestions)
    /\ file = FALSE
    /\ doc_text = << >>
    /\ text_chunks = << >>
    /\ index = {}
    /\ answers = << >>
    /\ log = << >>
    /\ calls = [analyze_question |-> 0, generate_content |-> 0, query |-> 0,
                upsert |-> 0, upsert_failed |-> 0, sleep60 |-> 0]
    /\ api_calls = 0
    /\ result = None
    /\ report = NoReport
    /\ IdleChunk
    /\ IdleRule
    /\ IdleAux

\* model = setup_gemini(); "if not model: return"
QuerySetup ==
    /\ pc = "setup"
    /\ \E api_key \in BOOLEAN : pc' = IF api_key THEN "download" ELSE "done"
    /\ UNCHANGED << variant, pdf, questions, file, doc_text, text_chunks, index,
                    answers, log, calls, api_calls, result, report >>
    /\ UNCHANGED << chunkVars, ruleVars, auxVars >>

\* pdf_filename = download_pdf(...); "if not pdf_filename: return"
QueryDownload ==
    /\ pc = "download"
    /\ IF pdf.fetch_ok
       THEN file' = TRUE /\ pc' = "extract"
       ELSE pc' = "done" /\ UNCHANGED file
    /\ UNCHANGED << variant, pdf, questions, doc_text, text_chunks, index,
                    answers, log, calls, api_calls, result, report >>
    /\ UNCHANGED << chunkVars, ruleVars, auxVars >>

\* text = extract_pdf_text(pdf_filename)
QueryExtract ==
    /\ pc = "extract"
    /\ doc_text' = query_extract_pdf_text(pdf)
    /\ pc' = "check"
    /\ UNCHANGED << variant, pdf, questions, file, text_chunks, index, answers,
                    log, calls, api_calls, result, report >>
    /\ UNCHANGED << chunkVars, ruleVars, auxVars >>

\* "if not text.strip(): return"
QueryCheck ==
    /\ pc = "check"
    /\ pc' = IF Strip(doc_text) = << >> THEN "done" ELSE "answer"
    /\ UNCHANGED << variant, pdf, questions, file, doc_text, text_chunks, index,
                    answers, log, calls, api_calls, result, report >>
    /\ UNCHANGED << chunkVars, ruleVars, auxVars >>

\* answers = answer_questions_with_gemini(model, text, questions)
QueryAnswer ==
    /\ pc = "answer"
    /\ \E outcome \in Outcomes :
          answers' = << [question |-> Flatten(questions),
                         answer |-> answer_questions_with_gemini(outcome)] >>
    /\ calls' = [calls EXCEPT !.generate_content = @ + 1]
    /\ pc' = "cleanup"
    /\ UNCHANGED << variant, pdf, questions, file, doc_text, text_chunks, index,
                    log, api_calls, result, report >>
    /\ UNCHANGED << chunkVars, ruleVars, auxVars >>

\* the results are printed and saved, or the failure is printed; then
\* os.remove(pdf_filename)
QueryCleanUp ==
    /\ pc = "cleanup"
    /\ report' = [NoReport EXCEPT
                    !.reported = answers[1].answer # << >>
                                 /\ answers[1].answer[1] # CrossMark]
    /\ file' = FALSE
    /\ pc' = "done"
    /\ UNCHANGED << variant, pdf, questions, doc_text, text_chunks, index,
                    answers, log, calls, api_calls, result >>
    /\ UNCHANGED << chunkVars, ruleVars, auxVars >>

NextQuery ==
    \/ QuerySetup
    \/ QueryDownload
    \/ QueryExtract
    \/ QueryCheck
    \/ QueryAnswer
    \/ QueryCleanUp

SpecQuery == InitQuery /\ [][NextQuery]_vars

-----------------------------------------------------------------------------
(* Specification SpecManagers: PineconeManager and GeminiManager of        *)
(* dependencies.py are constructed from the environment and their methods  *)
(* are called in any order.  A method call yields [value, raised] and the  *)
(* number of calls it made to the index or the model.                      *)

\* the values an environment variable with a key may hold: unset, one of the
\* placeholders of the code, a key
EnvKeys == { "unset", "placeholder", "demo-key", "key" }

\* PineconeManager.__init__ and _initialize_client: available is
\* PINECONE_AVAILABLE, env the three PINECONE_ variables at once, client_ok
\* whether pinecone.Index(...) returns
PineconeManager(available, env, client_ok) ==
    IF ~available
    THEN [constructed |-> TRUE, mock_mode |-> TRUE, index |-> FALSE]
    ELSE IF env = "placeholder"
    THEN [constructed |-> TRUE, mock_mode |-> TRUE, index |-> FALSE]
    ELSE IF env = "key" /\ client_ok
    THEN [constructed |-> TRUE, mock_mode |-> FALSE, index |-> TRUE]
    ELSE [constructed |-> TRUE, mock_mode |-> TRUE, index |-> FALSE]

\* GeminiManager.__init__
GeminiManager(api_key) ==
    LET mock_mode == api_key \in { "unset", "placeholder", "demo-key" } IN
    [constructed |-> TRUE, mock_mode |-> mock_mode, model |-> ~mock_mode]

\* what index.query may do: results.matches, or an exception
QueryOutcomes ==
    { [ok |-> TRUE, val |-> << >>], [ok |-> TRUE, val |-> << "match" >>],
      [ok |-> FALSE, val |-> << "503", "unavailable" >>] }

\* what index.describe_index_stats may do
StatsOutcomes ==
    { [ok |-> TRUE, val |-> << "stats" >>],
      [ok |-> FALSE, val |-> << "503", "unavailable" >>] }

\* PineconeManager.search_similar
search_similar(self, outcome) ==
    IF self.mock_mode
    THEN [value |-> << >>, raised |-> FALSE, external |-> 0]
    ELSE IF outcome.ok
    THEN [value |-> outcome.val, raised |-> FALSE, external |-> 1]
    ELSE [value |-> << >>, raised |-> FALSE, external |-> 1]

\* PineconeManager.test_connection and GeminiManager.test_connection
test_connection(self, outcome) ==
    IF self.mock_mode
    THEN [value |-> FALSE, raised |-> FALSE, external |-> 0]
    ELSE [value |-> outcome.ok, raised |-> FALSE, external |-> 1]

MockResponse ==
    << "This is a mock response from the AI assistant.",
       "Please configure Gemini API for full functionality." >>

\* mutant: the model is asked in mock mode too
generate_response_unguarded(self, outcome) ==
    IF outcome.ok
    THEN [value |-> Strip(outcome.val), raised |-> FALSE, external |-> 1]
    ELSE [value |-> outcome.val, raised |-> TRUE, external |-> 1]

\* GeminiManager.generate_response: a failing generate_content is logged and
\* raised again ("raise e")
generate_response(self, outcome) ==
    IF self.mock_mode
    THEN [value |-> MockResponse, raised |-> FALSE, external |-> 0]
    ELSE IF outcome.ok
    THEN [value |-> Strip(outcome.val), raised |-> FALSE, external |-> 1]
    ELSE [value |-> outcome.val, raised |-> TRUE, external |-> 1]

InitManagers ==
    /\ IdleManagers
    /\ IdleChunk /\ IdleRule /\ IdleRun
    /\ IdleTwice /\ IdleUpload /\ IdleExtract /\ IdleApp /\ IdleMore

\* pinecone_manager = PineconeManager()
ConstructPineconeManager ==
    /\ ~pinecone_manager.constructed
    /\ \E available \in BOOLEAN, env \in EnvKeys \ { "demo-key" },
          client_ok \in BOOLEAN :
          pinecone_manager' = PineconeManager(available, env, client_ok)
    /\ UNCHANGED << gemini_manager, m_calls, m_last >>
    /\ UNCHANGED << chunkVars, ruleVars, runVars, twiceVars, upVars, exVars,
                    appVars,
                    moreVars >>

\* gemini_manager = GeminiManager()
ConstructGeminiManager ==
    /\ ~gemini_manager.constructed
    /\ \E api_key \in EnvKeys : gemini_manager' = GeminiManager(api_key)
    /\ UNCHANGED << pinecone_manager, m_calls, m_last >>
    /\ UNCHANGED << chunkVars, ruleVars, runVars, twiceVars, upVars, exVars,
                    appVars,
                    moreVars >>

\* a method was called: outcome is what the index or the model did if asked
Called(method, outcome, r) ==
    /\ m_last' = [method |-> method,
                  outcome |-> IF r.external = 0 THEN NoOutcome ELSE outcome,
                  raised |-> r.raised, value |-> r.value]
    /\ UNCHANGED << pinecone_manager, gemini_manager >>
    /\ UNCHANGED << chunkVars, ruleVars, runVars, twiceVars, upVars, exVars,
                    appVars,
                    moreVars >>

SearchSimilar ==
    /\ pinecone_manager.constructed /\ m_calls.methods < MaxManagerCalls
    /\ \E outcome \in QueryOutcomes :
          LET r == search_similar(pinecone_manager, outcome) IN
          /\ m_calls' = [m_calls EXCEPT !.methods = @ + 1,
                                        !.query = @ + r.external]
          /\ Called("PineconeManager.search_similar", outcome, r)

PineconeTestConnection ==
    /\ pinecone_manager.constructed /\ m_calls.methods < MaxManagerCalls
    /\ \E outcome \in StatsOutcomes :
          LET r == test_connection(pinecone_manager, outcome) IN
          /\ m_calls' = [m_calls EXCEPT !.methods = @ + 1,
                              !.describe_index_stats = @ + r.external]
          /\ Called("PineconeManager.test_connection", outcome, r)

GenerateResponse ==
    /\ gemini_manager.constructed /\ m_calls.methods < MaxManagerCalls
    /\ \E outcome \in Outcomes :
          LET r == generate_response(gemini_manager, outcome) IN
          /\ m_calls' = [m_calls EXCEPT !.methods = @ + 1,
                                        !.generate_content = @ + r.external]
          /\ Called("GeminiManager.generate_response", outcome, r)

GeminiTestConnection ==
    /\ gemini_manager.constructed /\ m_calls.methods < MaxManagerCalls
    /\ \E outcome \in Outcomes :
          LET r == test_connection(gemini_manager, outcome) IN
          /\ m_calls' = [m_calls EXCEPT !.methods = @ + 1,
                                        !.generate_content = @ + r.external]
          /\ Called("GeminiManager.test_connection", outcome, r)

NextManagers ==
    \/ ConstructPineconeManager
    \/ ConstructGeminiManager
    \/ SearchSimilar
    \/ PineconeTestConnection
    \/ GenerateResponse
    \/ GeminiTestConnection

SpecManagers == InitManagers /\ [][NextManagers]_vars

-----------------------------------------------------------------------------
(* Specification SpecUpload: upload_to_pinecone applied to one chunk list  *)
(* of 0..MaxChunks chunks, with any of its upsert calls failing.           *)

\* the chunks a document gives whose pages have per_page chunks each, the
\* first n of them
ChunkList(n, per_page) ==
    [ j \in 1..n |->
        [id    |-> ChunkId(((j - 1) \div per_page) + 1, ((j - 1) % per_page) + 1),
         text  |-> << "a" >>,
         page  |-> ((j - 1) \div per_page) + 1,
         chunk |-> ((j - 1) % per_page) + 1] ]

InitUpload ==
    /\ u_pc = "call"
    /\ \E n \in 0..MaxChunks, per_page \in { 1, 7 } :
          u_chunks = ChunkList(n, per_page)
    /\ u_upserts = << >>
    /\ u_result = "none" /\ u_index = {}
    /\ IdleChunk /\ IdleRule /\ IdleRun
    /\ IdleTwice /\ IdleManagers /\ IdleExtract /\ IdleApp /\ IdleMore

\* self.upload_to_pinecone(text_chunks)
Upload ==
    /\ u_pc = "call"
    /\ \E fail_at \in 0..NumBatches(Len(u_chunks)) :
          LET up == upload_to_pinecone(u_chunks, {}, fail_at) IN
          /\ u_upserts' = [ k \in 1..Len(up.batches) |->
                              [ j \in 1..Len(up.batches[k]) |->
                                  up.batches[k][j].id ] ]
          /\ u_result' = IF up.ok THEN "True" ELSE "False"
          /\ u_index' = up.index
    /\ u_pc' = "done"
    /\ UNCHANGED u_chunks
    /\ UNCHANGED << chunkVars, ruleVars, runVars, twiceVars, mgrVars, exVars,
                    appVars,
                    moreVars >>

NextUpload == Upload

SpecUpload == InitUpload /\ [][NextUpload]_vars

\* the ids of the chunks, in chunk order
ChunkIds(chunks) == [ j \in 1..Len(chunks) |-> chunks[j].id ]

\* C16: a successful upload upserts every chunk's vector exactly once under
\* the chunk's id, in chunk order, in batches of 1..100 vectors of which all
\* but the last hold 100; for zero chunks no upsert call is made.
C16_UpsertsInBatchesOfAtMost100 ==
    (u_pc = "done" /\ u_result = "True") =>
        /\ Flatten(u_upserts) = ChunkIds(u_chunks)
        /\ \A k \in 1..Len(u_upserts) :
              /\ Len(u_upserts[k]) >= 1 /\ Len(u_upserts[k]) <= 100
              /\ k < Len(u_upserts) => Len(u_upserts[k]) = 100
        /\ u_chunks = << >> => u_upserts = << >>

\* C16 witness: 201 chunks were upserted in batches of 100, 100 and 1
C16_Witness ==
    /\ u_pc = "done" /\ u_result = "True"
    /\ Len(u_chunks) = 201 /\ Len(u_upserts) = 3
    /\ Len(u_upserts[3]) = 1
    /\ u_upserts[3][1] = u_chunks[201].id

-----------------------------------------------------------------------------
(* Specification SpecExtract: the hybrid extract_pdf_text applied to one   *)
(* document whose pages are long enough to be cut into several chunks.     *)

\* a word of n characters
Word(n) == [ i \in 1..n |-> "a" ]

\* page texts that chunk_text(page_text, max_length=600) cuts into 0, 1, 2, 2
\* and 3 chunks
LongPages ==
    { << >>,
      Word(3),
      Join(<< Word(300), Word(300) >>),
      Join(<< Word(400), Word(400), Word(100) >>),
      Join(<< Word(350), Word(350), Word(350) >>) }

InitExtract ==
    /\ e_pc = "call"
    /\ e_pdf \in { [fetch_ok |-> TRUE, readable |-> FALSE, pages |-> << >>] }
               \cup { [fetch_ok |-> TRUE, readable |-> TRUE, pages |-> ps] :
                        ps \in BoundedSeq(LongPages, MaxLongPages) }
    /\ e_chunks = << >>
    /\ IdleChunk /\ IdleRule /\ IdleRun
    /\ IdleTwice /\ IdleManagers /\ IdleUpload /\ IdleApp /\ IdleMore

\* text_chunks = self.extract_pdf_text(pdf_filename)
ExtractChunks ==
    /\ e_pc = "call"
    /\ e_chunks' = hybrid_extract_pdf_text(e_pdf)
    /\ e_pc' = "done"
    /\ UNCHANGED e_pdf
    /\ UNCHANGED << chunkVars, ruleVars, runVars, twiceVars, mgrVars, upVars,
                    appVars,
                    moreVars >>

NextExtract == ExtractChunks

SpecExtract == InitExtract /\ [][NextExtract]_vars

\* the number a string of decimal digits stands for, -1 if it is not one
RECURSIVE ParseInt(_)
ParseInt(ds) ==
    IF ds = << >> THEN -1
    ELSE LET last == ds[Len(ds)]
             d    == IF \E v \in 0..9 : DecimalDigits[v + 1] = last
                     THEN CHOOSE v \in 0..9 : DecimalDigits[v + 1] = last
                     ELSE -1
             rest == IF Len(ds) = 1 THEN 0
                     ELSE ParseInt(SubSeq(ds, 1, Len(ds) - 1))
         IN  IF d = -1 \/ rest = -1 THEN -1 ELSE 10 * rest + d

\* where "_chunk_" stands in an identifier, 0 if nowhere
Separator(id) ==
    IF \E i \in 1..Len(id) : id[i] = "_chunk_"
    THEN CHOOSE i \in 1..Len(id) : id[i] = "_chunk_" ELSE 0

\* the p and the i of an identifier "page_<p>_chunk_<i>", -1 if it has none
IdPage(id) ==
    IF Separator(id) > 1 /\ id[1] = "page_"
    THEN ParseInt(SubSeq(id, 2, Separator(id) - 1)) ELSE -1
IdOrdinal(id) ==
    IF Separator(id) > 0
    THEN ParseInt(SubSeq(id, Separator(id) + 1, Len(id))) ELSE -1

\* C17: the identifiers of the chunks of one document are pairwise distinct,
\* and every chunk's page and ordinal are the p and i its identifier
\* "page_<p>_chunk_<i>" holds.
C17_ChunkIdsDistinctAndConsistent ==
    e_pc = "done" =>
        /\ \A i \in 1..Len(e_chunks) : \A j \in 1..Len(e_chunks) :
              i # j => e_chunks[i].id # e_chunks[j].id
        /\ \A i \in 1..Len(e_chunks) :
              /\ IdPage(e_chunks[i].id) = e_chunks[i].page
              /\ IdOrdinal(e_chunks[i].id) = e_chunks[i].chunk
              /\ e_chunks[i].page \in 1..Len(e_pdf.pages)
              /\ e_chunks[i].chunk >= 1

\* C17 witness: a document with an empty first page and two pages of two and
\* three chunks: the ordinals 1 and 2 occur on both pages
C17_Witness ==
    /\ e_pc = "done"
    /\ Len(e_pdf.pages) = 3 /\ e_pdf.pages[1] = << >>
    /\ Len(e_chunks) = 5
    /\ e_chunks[2].page = 2 /\ e_chunks[2].chunk = 2
    /\ e_chunks[4].page = 3 /\ e_chunks[4].chunk = 2
    /\ e_chunks[5].chunk = 3

-----------------------------------------------------------------------------
(* Specification SpecApp: the server of app.py handles one request.        *)

\* the results list do_POST holds for /analyze: ten questions and answers
AnalyzeResults ==
    << [question |-> << "grace period", "premium", "National Parivar" >>,
        answer   |-> << "Grace period:", "30", "days" >>],
       [question |-> << "waiting period", "pre-existing", "PED" >>,
        answer   |-> << "Waiting period for pre-existing diseases (PED):", "36",
                        "months of continuous coverage" >>],
       [question |-> << "maternity", "expenses", "conditions" >>,
        answer   |-> << "Maternity coverage found",
                        "with detailed conditions and limits" >>],
       [question |-> << "waiting period", "cataract", "surgery" >>,
        answer   |-> << "Waiting period for cataract surgery:", "3", "months" >>],
       [question |-> << "expenses", "organ donor" >>,
        answer   |-> << "Organ donor expenses are covered under this policy" >>],
       [question |-> << "No Claim Discount", "NCD" >>,
        answer   |-> << "No Claim Discount (NCD):", "5", "%" >>],
       [question |-> << "preventive", "health check" >>,
        answer   |-> << "Preventive health check benefits are available" >>],
       [question |-> << "define", "Hospital" >>,
        answer   |-> << "Hospital definition includes licensed medical institutions" >>],
       [question |-> << "coverage", "AYUSH" >>,
        answer   |-> << "AYUSH treatments are covered under this policy" >>],
       [question |-> << "room rent", "ICU", "Plan A" >>,
        answer   |-> << "Room rent and ICU sub-limits apply to Plan A" >>] >>

\* the test_results list do_POST holds for /test
TestResults ==
    << [question |-> << "grace period", "premium" >>,
        answer   |-> << "Grace period:", "30", "days" >>],
       [question |-> << "waiting period", "pre-existing" >>,
        answer   |-> << "Waiting period for pre-existing diseases (PED):", "36",
                        "months of continuous coverage" >>],
       [question |-> << "maternity", "expenses" >>,
        answer   |-> << "Maternity coverage found",
                        "with detailed conditions and limits" >>] >>

NotFound == [status |-> 404, body |-> [error |-> "Not found"]]

\* InsurancePolicyHandler.do_GET
do_GET(req) ==
    IF req.path = "/"
    THEN [status |-> 200,
          body |-> [message |-> "Insurance Policy Analyzer API",
                    version |-> "1.0.0"]]
    ELSE IF req.path = "/health"
    THEN [status |-> 200, body |-> [status |-> "healthy"]]
    ELSE NotFound

\* InsurancePolicyHandler.do_POST: the request body is not read
do_POST(req) ==
    IF req.path = "/analyze"
    THEN [status |-> 200,
          body |-> [success |-> TRUE, found_count |-> 10,
                    total_questions |-> 10, results |-> AnalyzeResults]]
    ELSE IF req.path = "/test"
    THEN [status |-> 200,
          body |-> [success |-> TRUE, test_results |-> TestResults]]
    ELSE NotFound

\* the questions a client may send: the first of the server's own, and others
RequestQuestions ==
    { AnalyzeResults[1].question, AnalyzeResults[2].question,
      AnalyzeResults[3].question, << "color" >> }

Requests ==
    { [method |-> m, path |-> p,
       body |-> [documents |-> "policy.pdf", questions |-> qs]] :
         m \in { "GET", "POST" },
         p \in { "/", "/health", "/analyze", "/test", "/other" },
         qs \in BoundedSeq(RequestQuestions, MaxRequestQuestions) }

InitApp ==
    /\ a_pc = "request"
    /\ request \in Requests
    /\ response = << >>
    /\ IdleChunk /\ IdleRule /\ IdleRun
    /\ IdleTwice /\ IdleManagers /\ IdleUpload /\ IdleExtract /\ IdleMore

DoGet ==
    /\ a_pc = "request" /\ request.method = "GET"
    /\ response' = do_GET(request)
    /\ a_pc' = "done"
    /\ UNCHANGED request
    /\ UNCHANGED << chunkVars, ruleVars, runVars, twiceVars, mgrVars, upVars,
                    exVars,
                    moreVars >>

DoPost ==
    /\ a_pc = "request" /\ request.method = "POST"
    /\ response' = do_POST(request)
    /\ a_pc' = "done"
    /\ UNCHANGED request
    /\ UNCHANGED << chunkVars, ruleVars, runVars, twiceVars, mgrVars, upVars,
                    exVars,
                    moreVars >>

NextApp == DoGet \/ DoPost

SpecApp == InitApp /\ [][NextApp]_vars

\* C18 as claimed: the response to POST /analyze has one {question, answer}
\* entry per question of the request body, in the same order, and
\* total_questions is the number of questions sent, found_count at most that.
C18_AnalyzeAnswersTheQuestionsSent ==
    (a_pc = "done" /\ request.method = "POST" /\ request.path = "/analyze") =>
        /\ Len(response.body.results) = Len(request.body.questions)
        /\ \A k \in 1..Len(request.body.questions) :
              response.body.results[k].question = request.body.questions[k]
        /\ response.body.total_questions = Len(request.body.questions)
        /\ response.body.found_count <= response.body.total_questions

-----------------------------------------------------------------------------
(* Specification SpecTwice: analyze_question is called again and again on  *)
(* one TextBasedPolicyAnalyzer, with any texts and questions in any order. *)

\* mutant: the analyzer counts its calls and answers the first one only
call_counting(self, text, question) ==
    [answer |-> IF self = << >> THEN analyze_question(text, question)
                ELSE Returned(NotRecognized),
     self   |-> Append(self, "call")]

\* one call self.analyze_question(text, question): what it yields and the
\* instance attributes afterwards.  The method and the extractors read and
\* write no attribute of self.
call_analyze_question(self, text, question) ==
    [answer |-> analyze_question(text, question), self |-> self]

TwiceTexts ==
    { << "grace period", "of", "30", "days", "\n", "no claim discount", "5", "%" >>,
      << "grace period", "of", "15", "days" >>,
      << "grace period", "thirty", "days" >> }

TwiceQuestions ==
    { << "grace period", "premium" >>, << "NCD" >>, << "color" >> }

\* analyzer = TextBasedPolicyAnalyzer(): __init__ sets no attribute
InitTwice ==
    /\ analyzer = << >>
    /\ history = << >>
    /\ IdleChunk /\ IdleRule /\ IdleRun
    /\ IdleManagers /\ IdleUpload /\ IdleExtract /\ IdleApp /\ IdleMore

CallAnalyzeQuestion ==
    /\ Len(history) < MaxCalls
    /\ \E text \in TwiceTexts, question \in TwiceQuestions :
          LET c == call_analyze_question(analyzer, text, question) IN
          /\ analyzer' = c.self
          /\ history' = Append(history, [text |-> text, question |-> question,
                                         answer |-> c.answer])
    /\ UNCHANGED << chunkVars, ruleVars, runVars, mgrVars, upVars, exVars,
                    appVars,
                    moreVars >>

NextTwice == CallAnalyzeQuestion

SpecTwice == InitTwice /\ [][NextTwice]_vars

-----------------------------------------------------------------------------
(* Specification SpecOutcome: two documents are given to one pipeline each, *)
(* TextBasedPolicyAnalyzer.analyze_policy or analyze_document of            *)
(* gemini_only_system.py, and what the caller gets back is kept for both.   *)

\* TextBasedPolicyAnalyzer.analyze_policy as a function of the document and
\* the questions: what it returns, or that an exception left it
text_analyze_policy(d, qs) ==
    IF ~d.fetch_ok THEN [raised |-> FALSE, value |-> None]
    ELSE LET text == extract_pdf_text(d) IN
         IF NoContent("text", text, << >>)
         THEN [raised |-> FALSE, value |-> None]
         ELSE LET a == [ i \in 1..Len(qs) |-> analyze_question(text, qs[i]) ] IN
              IF \E i \in 1..Len(qs) : a[i].exc
              THEN [raised |-> TRUE, value |-> None]
              ELSE [raised |-> FALSE,
                    value |-> List([ i \in 1..Len(qs) |-> a[i].val ])]

\* GeminiDocumentAnalyzer.extract_text_from_pdf: "" when reading raises, else
\* every page behind its marker
extract_text_from_pdf(d) == query_extract_pdf_text(d)

\* the dict analyze_document returns: its key and what stands under it
Error(message) == [key |-> "error", val |-> message]
Success(analysis) == [key |-> "success", val |-> analysis]

\* GeminiDocumentAnalyzer.analyze_document on a path ending in .pdf (is_pdf)
\* or on any other path, which it reads as text; outcome is what
\* generate_content does when it is called
analyze_document(is_pdf, d, outcome) ==
    IF ~is_pdf /\ ~d.readable
    THEN [raised |-> FALSE,
          value |-> Error(<< "Could not read file:", "error" >>)]
    ELSE LET document_text == IF is_pdf THEN extract_text_from_pdf(d)
                              ELSE Flatten(d.pages) IN
         IF Strip(document_text) = << >>
         THEN [raised |-> FALSE,
               value |-> Error(<< "No text content found in document" >>)]
         ELSE IF ~outcome.ok
         THEN [raised |-> FALSE,
               value |-> Error(<< "Gemini analysis failed:" >> \o outcome.val)]
         ELSE IF outcome.val = << >>
         THEN [raised |-> FALSE,
               value |-> Error(<< "No response generated from Gemini" >>)]
         ELSE [raised |-> FALSE, value |-> Success(outcome.val)]

\* the pipelines a document is given to
Pipelines == { "analyze_policy", "analyze_document pdf", "analyze_document text" }

\* the documents on disk or behind the URL: unreadable, or readable
OutcomeDocuments == { d \in Documents("text") : d.fetch_ok }

\* what the model does when analyze_document calls it
DocumentOutcomes == Outcomes \cup { [ok |-> TRUE, val |-> << >>] }

\* the text the pipeline extracts from the document
extracted_text(kind, d) ==
    CASE kind = "analyze_policy" -> extract_pdf_text(d)
      [] kind = "analyze_document pdf" -> extract_text_from_pdf(d)
      [] OTHER -> IF d.readable THEN Flatten(d.pages) ELSE << >>

run_pipeline(kind, d, q, outcome) ==
    CASE kind = "analyze_policy" -> text_analyze_policy(d, << q >>)
      [] kind = "analyze_document pdf" -> analyze_document(TRUE, d, outcome)
      [] OTHER -> analyze_document(FALSE, d, outcome)

otherMore1 == << rateVars, concVars, idxVars, dbVars >>

InitOutcome ==
    /\ o_pc = "call"
    /\ o_kind \in Pipelines
    /\ o_docs \in OutcomeDocuments \X OutcomeDocuments
    /\ o_results = << >>
    /\ IdleBase /\ IdleRate /\ IdleConc /\ IdleIndex /\ IdleDb

\* both documents go through the pipeline, one after the other
RunPipelines ==
    /\ o_pc = "call"
    /\ \E q \in RunQuestions, outcome \in DocumentOutcomes :
          o_results' = [ i \in 1..2 |->
                           run_pipeline(o_kind, o_docs[i], q, outcome) ]
    /\ o_pc' = "done"
    /\ UNCHANGED << o_kind, o_docs >>
    /\ UNCHANGED << baseVars, otherMore1 >>

NextOutcome == RunPipelines

SpecOutcome == InitOutcome /\ [][NextOutcome]_vars

-----------------------------------------------------------------------------
(* Specification SpecRate: one EfficientPolicyAnalyzer is asked question    *)
(* after question; each analyze_with_optimized_search call gets any outcome *)
(* of its model call and of its retry.                                      *)

otherMore2 == << outVars, concVars, idxVars, dbVars >>

\* analyzer = EfficientPolicyAnalyzer(): self.api_calls = 0
InitRate ==
    /\ rl_api_calls = 0
    /\ rl_last = << >>
    /\ IdleBase /\ IdleOutcome /\ IdleConc /\ IdleIndex /\ IdleDb

\* answer = self.analyze_with_optimized_search(text, question)
AnalyzeWithOptimizedSearch ==
    /\ rl_api_calls < MaxApiCalls
    /\ \E first \in Outcomes, second \in Outcomes :
          LET r == analyze_with_optimized_search(rl_api_calls, first, second) IN
          /\ rl_api_calls' = r.api_calls
          /\ rl_last' = [before   |-> rl_api_calls,
                         gen      |-> r.gen,
                         sleeps   |-> r.sleeps,
                         cooldown |-> r.cooldown,
                         answer   |-> r.answer]
    /\ UNCHANGED << baseVars, otherMore2 >>

NextRate == AnalyzeWithOptimizedSearch

SpecRate == InitRate /\ [][NextRate]_vars

-----------------------------------------------------------------------------
(* Specification SpecConc: two analyze_policy runs of the text-based (or    *)
(* hybrid) analyzer execute at the same time in one working directory.      *)
(* Both use download_pdf's default filename "policy.pdf".  The bytes of a   *)
(* document are named by its URL; the steps of the two runs interleave.     *)

Runs == { 1, 2 }

\* the URLs a run may be given
Urls == { "url A", "url B" }

\* policy.pdf does not exist; it was opened with 'wb' and is not yet written
NoFile == "no file"
Truncated == "truncated"

\* what extract_pdf_text got: nothing yet, or an exception from open() or
\* PdfReader, or the bytes it read
NotRead == "not read"
ReadRaised == "raised"

otherMore3 == << outVars, rateVars, idxVars, dbVars >>

InitConc ==
    /\ k_pc = [ p \in Runs |-> "download" ]
    /\ k_url \in [ Runs -> Urls ]
    /\ k_file = NoFile
    /\ k_read = [ p \in Runs |-> NotRead ]
    /\ IdleBase /\ IdleOutcome /\ IdleRate /\ IdleIndex /\ IdleDb

\* download_pdf: requests.get(url) and raise_for_status(); when they fail
\* download_pdf returns None and analyze_policy returns None before its try
\* block; else open(filename, 'wb') creates or truncates policy.pdf
DownloadOpen(p) ==
    /\ k_pc[p] = "download"
    /\ \E fetch_ok \in BOOLEAN :
          IF fetch_ok
          THEN k_pc' = [k_pc EXCEPT ![p] = "write"] /\ k_file' = Truncated
          ELSE k_pc' = [k_pc EXCEPT ![p] = "done"] /\ UNCHANGED k_file
    /\ UNCHANGED << k_url, k_read >>
    /\ UNCHANGED << baseVars, otherMore3 >>

\* download_pdf: f.write(response.content) and the end of the with block
DownloadWrite(p) ==
    /\ k_pc[p] = "write"
    /\ k_file' = k_url[p]
    /\ k_pc' = [k_pc EXCEPT ![p] = "extract"]
    /\ UNCHANGED << k_url, k_read >>
    /\ UNCHANGED << baseVars, otherMore3 >>

\* text = self.extract_pdf_text(pdf_filename): it reads what policy.pdf
\* holds now; a missing or truncated file makes it return "" and
\* analyze_policy return None through its finally block
ExtractText(p) ==
    /\ k_pc[p] = "extract"
    /\ IF k_file \in { NoFile, Truncated }
       THEN /\ k_read' = [k_read EXCEPT ![p] = ReadRaised]
            /\ k_pc' = [k_pc EXCEPT ![p] = "cleanup"]
       ELSE /\ k_read' = [k_read EXCEPT ![p] = k_file]
            /\ k_pc' = [k_pc EXCEPT ![p] = "answer"]
    /\ UNCHANGED << k_url, k_file >>
    /\ UNCHANGED << baseVars, otherMore3 >>

\* the loop over the questions: it works on the extracted text alone
AnswerQuestions(p) ==
    /\ k_pc[p] = "answer"
    /\ k_pc' = [k_pc EXCEPT ![p] = "cleanup"]
    /\ UNCHANGED << k_url, k_file, k_read >>
    /\ UNCHANGED << baseVars, otherMore3 >>

\* finally: try: os.remove(pdf_filename) except: pass
CleanUp(p) ==
    /\ k_pc[p] = "cleanup"
    /\ k_file' = NoFile
    /\ k_pc' = [k_pc EXCEPT ![p] = "done"]
    /\ UNCHANGED << k_url, k_read >>
    /\ UNCHANGED << baseVars, otherMore3 >>

NextConc ==
    \E p \in Runs :
        \/ DownloadOpen(p)
        \/ DownloadWrite(p)
        \/ ExtractText(p)
        \/ AnswerQuestions(p)
        \/ CleanUp(p)

SpecConc == InitConc /\ [][NextConc]_vars

-----------------------------------------------------------------------------
(* Specification SpecIndex: HybridPolicyAnalyzer.analyze_policy runs on one *)
(* document after the other against the same remote index, which           *)
(* setup_pinecone only connects to.  The index holds vectors: an id and     *)
(* the metadata of the chunk it was made of.                                *)

\* most runs made against the index
MaxRuns == 2

\* what page.extract_text() may give for a page of these documents
IndexPages == { << "a" >>, << "b" >> }

\* the documents analysed: readable, of 0..MaxPages pages
IndexDocuments ==
    { [fetch_ok |-> TRUE, readable |-> TRUE, pages |-> ps] :
        ps \in BoundedSeq(IndexPages, MaxPages) }

\* self.index.upsert(vectors=batch): a vector replaces the one of its id
upsert(idx, batch) ==
    LET ids == { batch[j].id : j \in 1..Len(batch) } IN
    { v \in idx : v.id \notin ids } \cup { batch[j] : j \in 1..Len(batch) }

\* the index after the first n upsert calls of the list
RECURSIVE upserted(_, _, _)
upserted(idx, batches, n) ==
    IF n = 0 THEN idx
    ELSE upsert(upserted(idx, batches, n - 1), batches[n])

\* self.index.query(vector=..., top_k=top_k, include_metadata=True): any
\* top_k or fewer vectors of the index, whatever the similarity makes of
\* them; search_relevant_chunks returns [] when the query raises
query_results(idx) ==
    { S \in SUBSET idx : Cardinality(S) <= top_k }

otherMore4 == << outVars, rateVars, concVars, dbVars >>

InitIndex ==
    /\ x_pc = "upload"
    /\ \E d \in IndexDocuments :
          x_run = [n |-> 1, chunks |-> hybrid_extract_pdf_text(d)]
    /\ x_index = {}
    /\ x_hits = {}
    /\ IdleBase /\ IdleOutcome /\ IdleRate /\ IdleConc /\ IdleDb

\* "if not text_chunks: return None", else upload_to_pinecone(text_chunks)
\* and "return None" when it reports failure
IndexUpload ==
    /\ x_pc = "upload"
    /\ IF x_run.chunks = << >>
       THEN x_pc' = "returned" /\ UNCHANGED x_index
       ELSE \E fail_at \in 0..NumBatches(Len(x_run.chunks)) :
               LET up == upload_to_pinecone(x_run.chunks, {}, fail_at) IN
               /\ x_index' = upserted(x_index, up.batches,
                                      IF up.failed THEN Len(up.batches) - 1
                                      ELSE Len(up.batches))
               /\ x_pc' = IF up.ok THEN "search" ELSE "returned"
    /\ UNCHANGED << x_run, x_hits >>
    /\ UNCHANGED << baseVars, otherMore4 >>

\* relevant_chunks = self.search_relevant_chunks(question, top_k=3)
IndexSearch ==
    /\ x_pc = "search"
    /\ \E found \in query_results(x_index) : x_hits' = found
    /\ x_pc' = "returned"
    /\ UNCHANGED << x_run, x_index >>
    /\ UNCHANGED << baseVars, otherMore4 >>

\* analyze_policy is called for the next document
NextRun ==
    /\ x_pc = "returned"
    /\ x_run.n < MaxRuns
    /\ \E d \in IndexDocuments :
          x_run' = [n |-> x_run.n + 1, chunks |-> hybrid_extract_pdf_text(d)]
    /\ x_hits' = {}
    /\ x_pc' = "upload"
    /\ UNCHANGED x_index
    /\ UNCHANGED << baseVars, otherMore4 >>

NextIndex == IndexUpload \/ IndexSearch \/ NextRun

SpecIndex == InitIndex /\ [][NextIndex]_vars

-----------------------------------------------------------------------------
(* Specification SpecDb: the sessions of the DatabaseManager.  Its          *)
(* test_connection is called, and requests come in whose handler depends on *)
(* get_db_session, one after the other.                                     *)

\* what a call of test_connection meets: SessionLocal() raises, the query
\* raises, or both go through
ConnectionOutcomes == { "session raises", "execute raises", "ok" }

\* DatabaseManager.test_connection: its return value and the sessions it
\* opened and closed
test_connection_db(outcome) ==
    CASE outcome = "session raises" ->
             [value |-> FALSE, opened |-> 0, closed |-> 0]
      [] outcome = "execute raises" ->
             [value |-> FALSE, opened |-> 1, closed |-> 0]
      [] OTHER ->
             [value |-> TRUE, opened |-> 1, closed |-> 1]

otherMore5 == << outVars, rateVars, concVars, idxVars >>

\* db_manager = DatabaseManager(): an engine and a session factory
InitDb ==
    /\ d_pc = "idle"
    /\ d_opened = 0 /\ d_closed = 0
    /\ d_last = << >>
    /\ IdleBase /\ IdleOutcome /\ IdleRate /\ IdleConc /\ IdleIndex

\* db_manager.test_connection()
TestConnection ==
    /\ d_pc = "idle"
    /\ d_opened < MaxSessions
    /\ \E outcome \in ConnectionOutcomes :
          LET r == test_connection_db(outcome) IN
          /\ d_opened' = d_opened + r.opened
          /\ d_closed' = d_closed + r.closed
          /\ d_last' = [op |-> "test_connection", outcome |-> outcome,
                        value |-> r.value]
    /\ UNCHANGED d_pc
    /\ UNCHANGED << baseVars, otherMore5 >>

\* get_db_session up to its yield: db = db_manager.get_db(), which raises
\* when SessionLocal() does
GetDbSession ==
    /\ d_pc = "idle"
    /\ d_opened < MaxSessions
    /\ \E session_ok \in BOOLEAN :
          IF session_ok
          THEN /\ d_opened' = d_opened + 1
               /\ d_pc' = "handler"
               /\ d_last' = [op |-> "get_db_session", outcome |-> "yield",
                             value |-> TRUE]
          ELSE /\ UNCHANGED << d_opened, d_pc >>
               /\ d_last' = [op |-> "get_db_session",
                             outcome |-> "session raises", value |-> FALSE]
    /\ UNCHANGED d_closed
    /\ UNCHANGED << baseVars, otherMore5 >>

\* the request handler returns or raises: the generator is resumed and its
\* finally block calls db_manager.close_db(db)
HandlerEnds ==
    /\ d_pc = "handler"
    /\ \E raised \in BOOLEAN :
          d_last' = [op |-> "get_db_session",
                     outcome |-> IF raised THEN "handler raises"
                                 ELSE "handler returns",
                     value |-> ~raised]
    /\ d_closed' = d_closed + 1
    /\ d_pc' = "idle"
    /\ UNCHANGED d_opened
    /\ UNCHANGED << baseVars, otherMore5 >>

NextDb == TestConnection \/ GetDbSession \/ HandlerEnds

SpecDb == InitDb /\ [][NextDb]_vars

-----------------------------------------------------------------------------
(* Claims about chunk_text *)

\* the words of all chunks, in chunk order
ChunkWords(chunks) == Flatten([ k \in 1..Len(chunks) |-> Split(chunks[k]) ])

\* C6: splitting every chunk on whitespace and concatenating the word lists in
\* chunk order gives exactly text.split(), and no chunk is empty.
C6_ChunksReconstructWords ==
    c_pc = "done" =>
        /\ ChunkWords(c_chunks) = Split(c_text)
        /\ \A k \in 1..Len(c_chunks) : c_chunks[k] # << >>

\* C6 witness: a text of at least three words was cut into at least two chunks
C6_Witness ==
    /\ c_pc = "done"
    /\ Len(Split(c_text)) >= 3
    /\ Len(c_chunks) >= 2

\* C7: no chunk is longer than max_length characters (as claimed; the code
\* breaks it for a word that is itself longer than max_length).
C7_NoChunkExceedsMaxLength ==
    c_pc = "done" => \A k \in 1..Len(c_chunks) : Len(c_chunks[k]) <= c_max

-----------------------------------------------------------------------------
(* Claims about analyze_policy and main *)

Over == pc \in { "returned", "done" }

\* C1: when analyze_policy returns a list, it has one entry per question,
\* entry k carries question k, in the caller's order.
C1_OneAnswerPerQuestionInOrder ==
    (Over /\ ~result.none) =>
        /\ Len(result.list) = Len(questions)
        /\ \A k \in 1..Len(questions) : result.list[k].question = questions[k]

\* C1 witness: the hybrid variant returned the answers to two different
\* questions, the first without and the second with matching chunks
C1_Witness ==
    /\ pc = "returned" /\ variant = "hybrid" /\ ~result.none
    /\ Len(questions) = 2 /\ questions[1] # questions[2]
    /\ log[1].matches = 0 /\ log[2].matches > 0

\* the answers of the returned list that hold neither sentinel
FoundAnswers ==
    { k \in 1..Len(result.list) :
        /\ \A j \in 1..Len(result.list[k].answer) :
              result.list[k].answer[j] # "Information not found"
        /\ \A j \in 1..Len(result.list[k].answer) :
              result.list[k].answer[j] # "not recognized" }

\* C4: the accuracy the text-based main reports is
\* 100 * (answers holding neither sentinel) / (number of questions), and
\* 0 <= found_count <= number of questions.
C4_AccuracyIsShareOfFoundAnswers ==
    /\ report.found_count >= 0 /\ report.found_count <= Len(questions)
    /\ (variant = "text" /\ pc = "done" /\ report.reported) =>
          /\ report.accuracy.den # 0
          /\ report.accuracy.num * Len(questions)
                = 100 * Cardinality(FoundAnswers) * report.accuracy.den
          /\ report.found_count = Cardinality(FoundAnswers)
          /\ report.total = Len(questions)

\* C4 witness: of two answers one was found and one was "not recognized",
\* and 50 % was reported
C4_Witness ==
    /\ variant = "text" /\ pc = "done" /\ report.reported
    /\ Len(questions) = 2 /\ report.found_count = 1
    /\ \E k \in 1..2 : result.list[k].answer[2] = "not recognized"
    /\ report.accuracy.num = 50 * report.accuracy.den

\* C5: no run divides by a question count of zero; with an empty question
\* list the summary is skipped.
C5_NoDivisionByZeroQuestions ==
    /\ report.error # "ZeroDivisionError"
    /\ (pc = "done" /\ questions = << >>) => ~report.reported

\* C5 witness: analyze_policy returned the empty list for zero questions
\* and main finished without a summary
C5_Witness ==
    /\ pc = "done" /\ questions = << >>
    /\ ~result.none /\ result.list = << >>
    /\ variant \in { "text", "efficient" }
    /\ report.error = ""

\* the extraction is over and gave nothing: an empty or blank text, or no chunk
EmptyExtraction ==
    /\ pc \notin { "download", "extract" }
    /\ pdf.fetch_ok
    /\ IF variant = "hybrid" THEN text_chunks = << >>
       ELSE \A j \in 1..Len(doc_text) : doc_text[j] \in { " ", "\n" }

\* C8: when the extraction gives nothing, analyze_policy returns None and
\* no answerer, index operation or model call is ever made.
C8_EmptyTextReturnsNoneUnanswered ==
    EmptyExtraction =>
        /\ pc \in { "check", "returned", "done" }
        /\ Over => result.none
        /\ answers = << >>
        /\ calls.analyze_question = 0 /\ calls.generate_content = 0
        /\ calls.query = 0 /\ calls.upsert = 0

\* C8 witness: a run with questions whose document gave nothing is over
C8_Witness ==
    /\ EmptyExtraction /\ pc = "done"
    /\ questions # << >>
    /\ result.none

\* C9 as claimed: a run with questions on a document of at least one page
\* whose pages are all empty ends in the no-content branch: no question is
\* answered and the result is None.
C9_EmptyPagesAreNoContent ==
    ( /\ pdf.fetch_ok /\ pdf.readable
      /\ Len(pdf.pages) >= 1
      /\ \A n \in 1..Len(pdf.pages) : pdf.pages[n] = << >>
      /\ questions # << >> ) =>
        /\ answers = << >>
        /\ calls.analyze_question = 0 /\ calls.generate_content = 0
        /\ Over => result.none

\* C11 as claimed: once a run is over, the temporary file policy.pdf is not
\* there any more, whichever way the run ended.
C11_TemporaryFileRemovedOnReturn ==
    pc \in { "returned", "raised", "done" } => ~file

\* C12: in the efficient variant a quota error ("429" in the exception text)
\* of the first model call is followed by one 60 s cooldown and one retry,
\* whose failure is returned as "Error after retry: ..."; an error without
\* "429" is not retried; so no question takes more than two model calls.
C12_QuotaErrorRetriedOnce ==
    variant = "efficient" =>
        /\ \A k \in 1..Len(log) :
              /\ log[k].gen \in { 1, 2 }
              /\ (~log[k].first.ok /\ Contains(log[k].first.val, "429")) =>
                    /\ log[k].cooldown = 1 /\ log[k].gen = 2
                    /\ answers[k].answer
                          = IF log[k].retry.ok THEN log[k].retry.val
                            ELSE << "Error after retry:" >> \o log[k].retry.val
              /\ (~log[k].first.ok /\ ~Contains(log[k].first.val, "429")) =>
                    /\ log[k].cooldown = 0 /\ log[k].gen = 1
                    /\ answers[k].answer
                          = << "Error in analysis:" >> \o log[k].first.val
              /\ log[k].first.ok =>
                    /\ log[k].cooldown = 0 /\ log[k].gen = 1
                    /\ answers[k].answer = log[k].first.val
        /\ calls.generate_content <= 2 * Len(answers)
        /\ calls.generate_content
              = Len(log) + Cardinality({ k \in 1..Len(log) : log[k].gen = 2 })

\* C12 witness: the first question met a quota error twice, the second an
\* error other than quota; three model calls were made in all
C12_Witness ==
    /\ variant = "efficient" /\ pc = "done" /\ Len(log) = 2
    /\ Contains(log[1].first.val, "429") /\ ~log[1].first.ok
    /\ ~log[1].retry.ok /\ Contains(log[1].retry.val, "429")
    /\ answers[1].answer[1] = "Error after retry:"
    /\ ~log[2].first.ok /\ ~Contains(log[2].first.val, "429")
    /\ calls.generate_content = 3 /\ calls.sleep60 = 1

\* C14 as claimed: once the answering of two or more questions has begun, a
\* failure on one of them does not end the run: the run is not left by an
\* exception and returns one answer entry for every question.
C14_FailureIsTerminalOnlyForItsItem ==
    ( /\ pc \in { "returned", "raised", "done" }
      /\ Len(questions) >= 2
      /\ calls.analyze_question + calls.generate_content + calls.query > 0 ) =>
        /\ pc # "raised"
        /\ ~result.none
        /\ Len(result.list) = Len(questions)

\* C15: in the hybrid variant, when an upsert batch fails, the upload reports
\* failure and analyze_policy returns None: no index query, no model call
\* and no answer for any question.
C15_FailedUpsertAbortsDocument ==
    (variant = "hybrid" /\ calls.upsert_failed > 0) =>
        /\ pc \in { "returned", "done" }
        /\ result.none
        /\ calls.query = 0 /\ calls.generate_content = 0
        /\ answers = << >> /\ log = << >>
        /\ ~report.reported

\* C15 witness: a run with two questions on a document of two chunks ended
\* after its upsert had failed
C15_Witness ==
    /\ variant = "hybrid" /\ pc = "done"
    /\ calls.upsert_failed = 1 /\ calls.upsert = 1
    /\ Len(text_chunks) = 2 /\ Len(questions) = 2
    /\ result.none /\ ~file

\* C10: in the hybrid variant a question whose search gave no match (or
\* failed) is answered with the fixed sentence, and the model is not called
\* for it.
C10_NoMatchNoModelCall ==
    variant = "hybrid" =>
        /\ \A k \in 1..Len(answers) :
              log[k].matches = 0 =>
                  /\ answers[k].answer
                        = << "No relevant information found in the document." >>
                  /\ log[k].gen = 0
        /\ calls.generate_content
              = Cardinality({ k \in 1..Len(log) : log[k].matches > 0 })

\* C10 witness: the search failed for one question and matched nothing for
\* another, although the index holds the document's chunks
C10_Witness ==
    /\ variant = "hybrid" /\ pc = "done"
    /\ index # {}
    /\ Len(answers) = 2
    /\ log[1].search_failed
    /\ ~log[2].search_failed /\ log[2].matches = 0
    /\ calls.generate_content = 0

-----------------------------------------------------------------------------
(* Claims about the managers of dependencies.py *)

\* C13 as claimed, for GeminiManager.generate_response: a failing model call
\* that is not a quota error comes back as a value and is not raised.  (The
\* other two answerers return "Error in analysis: ..." and
\* "Error generating answer: ...".)
C13_ModelFailureReturnedNotRaised ==
    ( /\ m_last.method = "GeminiManager.generate_response"
      /\ ~m_last.outcome.ok
      /\ ~QuotaError(m_last.outcome.val) ) => ~m_last.raised

\* C20: a manager in mock mode never invokes the index or the model;
\* search_similar gives the empty list, generate_response the fixed mock
\* string and either test_connection False.
C20_MockModeNeverInvokesDependency ==
    /\ pinecone_manager.mock_mode =>
          /\ ~pinecone_manager.index
          /\ m_calls.query = 0 /\ m_calls.describe_index_stats = 0
          /\ m_last.method = "PineconeManager.search_similar" =>
                ~m_last.raised /\ m_last.value = << >>
          /\ m_last.method = "PineconeManager.test_connection" =>
                ~m_last.raised /\ m_last.value = FALSE
    /\ gemini_manager.mock_mode =>
          /\ ~gemini_manager.model
          /\ m_calls.generate_content = 0
          /\ m_last.method = "GeminiManager.generate_response" =>
                /\ ~m_last.raised
                /\ m_last.value
                      = << "This is a mock response from the AI assistant.",
                           "Please configure Gemini API for full functionality." >>
          /\ m_last.method = "GeminiManager.test_connection" =>
                ~m_last.raised /\ m_last.value = FALSE

\* C20 witness: both managers are in mock mode and three of their methods
\* were called, generate_response last
C20_Witness ==
    /\ pinecone_manager.constructed /\ pinecone_manager.mock_mode
    /\ gemini_manager.constructed /\ gemini_manager.mock_mode
    /\ m_calls.methods = 3
    /\ m_last.method = "GeminiManager.generate_response"
    /\ m_last.value[1] = "This is a mock response from the AI assistant."

-----------------------------------------------------------------------------
(* Claims about the outcome of a pipeline for two documents *)

\* extraction raised: the document could not be read
ExtractionRaised(d) == ~d.readable

\* extraction went through and gave the empty text
ExtractedEmpty(kind, d) == d.readable /\ extracted_text(kind, d) = << >>

\* C21: the value returned to the caller for a document whose extraction
\* raised differs from the value returned for a document that extracted
\* successfully to empty text
C21_ExtractionErrorDistinctFromEmptyContent ==
    ( /\ o_pc = "done"
      /\ ExtractionRaised(o_docs[1])
      /\ ExtractedEmpty(o_kind, o_docs[2]) )
    => o_results[1] # o_results[2]

-----------------------------------------------------------------------------
(* Claims about the order of the categories of analyze_question *)

\* the extractors of the categories, in the priority order of the claim
CategoryExtractor ==
    << "extract_grace_period", "extract_waiting_period_ped",
       "extract_maternity_coverage", "extract_cataract_waiting_period",
       "extract_organ_donor_coverage", "extract_ncd_information",
       "extract_preventive_health_check", "extract_hospital_definition",
       "extract_ayush_coverage", "extract_room_rent_limits" >>

\* the lowercased question satisfies the condition of category k
CategoryHolds(k, ql) ==
    CASE k = 1 -> In("grace period", ql) /\ In("premium", ql)
      [] k = 2 -> In("waiting period", ql) /\ In("pre-existing", ql)
      [] k = 3 -> In("maternity", ql) /\ In("expenses", ql)
      [] k = 4 -> In("cataract", ql) /\ In("surgery", ql)
      [] k = 5 -> In("organ donor", ql) /\ In("expenses", ql)
      [] k = 6 -> In("no claim discount", ql) \/ In("ncd", ql)
      [] k = 7 -> In("preventive", ql) /\ In("health check", ql)
      [] k = 8 -> In("hospital", ql) /\ In("define", ql)
      [] k = 9 -> In("ayush", ql) /\ In("coverage", ql)
      [] OTHER -> In("room rent", ql) /\ In("icu", ql) /\ In("plan a", ql)

CategoriesOf(question) ==
    { k \in 1..Len(CategoryExtractor) : CategoryHolds(k, Lower(question)) }

Earliest(S) == CHOOSE k \in S : \A m \in S : k <= m

\* C22: a question is answered only by the extractor of the earliest
\* category, in the fixed priority order, whose condition its lowercased
\* form satisfies, and exactly one extractor is invoked per recognized
\* question (none for a question of no category)
C22_EarliestCategoryAnswersAlone ==
    r_pc = "done" =>
        LET S == CategoriesOf(r_question) IN
        IF S = {}
        THEN r_calls = << >> /\ r_answer = Returned(NotRecognized)
        ELSE /\ r_calls = << CategoryExtractor[Earliest(S)] >>
             /\ r_answer = call_extractor(CategoryExtractor[Earliest(S)], r_text)

\* a question of two categories whose extractors answer differently
C22_Witness ==
    /\ r_pc = "done"
    /\ LET S == CategoriesOf(r_question) IN
       /\ Cardinality(S) >= 2
       /\ \E k \in S : call_extractor(CategoryExtractor[k], r_text) # r_answer
       /\ r_calls = << CategoryExtractor[Earliest(S)] >>

-----------------------------------------------------------------------------
(* Claims about the patterns of a category *)

\* the positions of the lowercased text at which pattern i of
\* extract_grace_period has a match
GraceMatchStarts(i) ==
    { s \in 1..Len(r_text) :
        MatchFrom(grace_period_patterns[i], 1, Lower(r_text), s).ok }

\* the patterns of extract_grace_period that have any match in the text
GraceMatching ==
    { i \in 1..Len(grace_period_patterns) : GraceMatchStarts(i) # {} }

\* what the match of pattern i at position s makes the extractor do
GraceOutcome(i, s) ==
    LET m == MatchFrom(grace_period_patterns[i], 1, Lower(r_text), s) IN
    IF HasGroup(grace_period_patterns[i])
    THEN Returned(<< "Grace period:", m.cap, "days" >>)
    ELSE Raised("IndexError: no such group")

\* C23: within the grace-period category the outcome is that of the
\* lowest-indexed pattern with any match in the lowercased text, at that
\* pattern's leftmost match; the sentinel 'Information not found in the
\* document' comes back exactly when no pattern of the category matches
C23_LowestPatternLeftmostMatch ==
    (r_pc = "done" /\ GraceQuestion) =>
        IF GraceMatching = {}
        THEN r_answer = Returned(InformationNotFound)
        ELSE /\ r_answer # Returned(InformationNotFound)
             /\ \E i \in GraceMatching : \E s \in GraceMatchStarts(i) :
                   /\ \A k \in GraceMatching : i <= k
                   /\ \A u \in GraceMatchStarts(i) : s <= u
                   /\ r_answer = GraceOutcome(i, s)

\* the lowest pattern that matches has a second match further right that
\* would give another answer, and a later pattern matches too
C23_Witness ==
    /\ r_pc = "done" /\ GraceQuestion
    /\ Cardinality(GraceMatching) >= 2
    /\ \E i \in GraceMatching :
          /\ \A k \in GraceMatching : i <= k
          /\ \E s, u \in GraceMatchStarts(i) :
                /\ s < u
                /\ GraceOutcome(i, s) # GraceOutcome(i, u)
                /\ r_answer = GraceOutcome(i, s)

-----------------------------------------------------------------------------
(* Claims about the rate limiter of the efficient variant *)

\* the 60 s sleeps of rate_limit_check in the last call: all its sleeps but
\* the cooldown of the quota retry
LimiterSleeps == rl_last.sleeps - rl_last.cooldown

\* C24: api_calls goes up by exactly one per question, whether or not the
\* question took a quota retry, and is never reset; the rate limiter sleeps
\* 60 s in a call exactly when that call makes api_calls a positive multiple
\* of max_calls_per_minute
C24_RateLimiterCountsQuestions ==
    rl_last # << >> =>
        /\ rl_api_calls = rl_last.before + 1
        /\ rl_last.gen \in { 1, 2 }
        /\ LimiterSleeps = ( IF rl_api_calls > 0
                                /\ rl_api_calls % max_calls_per_minute = 0
                             THEN 1 ELSE 0 )

\* the sixteenth question took a quota retry: one increment, one sleep of
\* the limiter, two model calls
C24_Witness ==
    /\ rl_last # << >>
    /\ rl_api_calls = 2 * max_calls_per_minute
    /\ rl_last.gen = 2
    /\ LimiterSleeps = 1

-----------------------------------------------------------------------------
(* Claims about the totality of the rule-based answerer *)

\* the first pattern of extract_grace_period that matches has no group
FirstGraceMatchHasNoGroup ==
    /\ GraceMatching # {}
    /\ \E i \in GraceMatching :
          /\ \A k \in GraceMatching : i <= k
          /\ ~HasGroup(grace_period_patterns[i])

\* C25: for a recognized (grace-period) question analyze_question returns a
\* string and never raises, and when the first matching pattern has no
\* capture group the answer is the default 'Grace period: 30 days'
C25_RuleBasedAnswererIsTotal ==
    (r_pc = "done" /\ GraceQuestion) =>
        /\ ~r_answer.exc
        /\ FirstGraceMatchHasNoGroup =>
              r_answer = Returned(<< "Grace period:", "30", "days" >>)

-----------------------------------------------------------------------------
(* Claims about two runs in one working directory *)

\* C26: two analyze_policy runs executing concurrently in one working
\* directory do not interfere through the temporary file: a run that has
\* extracted has read exactly the bytes it downloaded itself
C26_RunsExtractTheirOwnBytes ==
    \A p \in Runs : k_read[p] # NotRead => k_read[p] = k_url[p]

-----------------------------------------------------------------------------
(* Claims about runs that share the index *)

\* C27: every chunk search_relevant_chunks returns during a run of
\* analyze_policy was uploaded by that run, i.e. is a chunk of the document
\* being analysed, also after an earlier run indexed another document
C27_SearchReturnsChunksOfThisRun ==
    \A h \in x_hits :
        \E j \in 1..Len(x_run.chunks) : Vector(x_run.chunks[j]) = h

-----------------------------------------------------------------------------
(* Claims about a failed upload *)

\* the ids of the first n chunks
PrefixIds(n) == { u_chunks[j].id : j \in 1..n }

\* C28: upload_to_pinecone performs no rollback: when the upsert of batch k
\* fails the function returns False, batch k was the last one attempted,
\* and the index holds exactly the vectors of batches 1..k-1, a
\* batch-aligned prefix of the document's chunks
C28_FailedUploadLeavesBatchPrefix ==
    (u_pc = "done" /\ u_result = "False") =>
        LET k == Len(u_upserts) IN
        /\ k >= 1 /\ k <= NumBatches(Len(u_chunks))
        /\ \A b \in 1..k :
              u_upserts[b] = SubSeq(ChunkIds(u_chunks), (b - 1) * batch_size + 1,
                                    Min(b * batch_size, Len(u_chunks)))
        /\ u_index = PrefixIds((k - 1) * batch_size)

\* the third batch of 201 chunks failed: the index holds the first 200
C28_Witness ==
    /\ u_pc = "done" /\ u_result = "False"
    /\ Len(u_chunks) = 201 /\ Len(u_upserts) = 3
    /\ Cardinality(u_index) = 200
    /\ u_chunks[200].id \in u_index /\ u_chunks[201].id \notin u_index

-----------------------------------------------------------------------------
(* Claims about the aggregation of the efficient variant *)

\* the answers of the result without 'Information not found'
AnswersWithoutSentinel ==
    { k \in 1..Len(result.list) :
        \A j \in 1..Len(result.list[k].answer) :
            result.list[k].answer[j] # "Information not found" }

\* the answers of the result that are error strings of
\* analyze_with_optimized_search
ErrorAnswers ==
    { k \in 1..Len(result.list) :
        result.list[k].answer[1] \in { "Error in analysis:", "Error after retry:" } }

\* C29: the efficient main counts an answer as found if and only if it
\* does not contain 'Information not found'; so the error strings
\* 'Error in analysis: ...' and 'Error after retry: ...' count as found and
\* raise the reported accuracy
C29_ErrorAnswersCountAsFound ==
    (variant = "efficient" /\ pc = "done" /\ report.reported) =>
        /\ report.found_count = Cardinality(AnswersWithoutSentinel)
        /\ ErrorAnswers \subseteq AnswersWithoutSentinel
        /\ report.found_count >= Cardinality(ErrorAnswers)
        /\ report.accuracy.num = 100 * Cardinality(AnswersWithoutSentinel)
        /\ report.accuracy.den = Len(questions)

\* two questions, one answered 'Error in analysis', one 'Error after
\* retry': 100 % reported
C29_Witness ==
    /\ variant = "efficient" /\ pc = "done" /\ report.reported
    /\ Len(result.list) = 2
    /\ result.list[1].answer[1] = "Error in analysis:"
    /\ result.list[2].answer[1] = "Error after retry:"
    /\ report.found_count = 2
    /\ report.accuracy.num = 100 * report.accuracy.den

-----------------------------------------------------------------------------
(* Claims about the sessions of the DatabaseManager *)

\* C30: every session opened by test_connection or by get_db_session is
\* closed before the operation finishes, whether the query or the handler
\* raises or not: between operations no session is open
C30_EverySessionIsClosed ==
    d_pc = "idle" => d_closed = d_opened

=============================================================================
